---- MODULE Spec2Model ----
(***************************************************************************)
(* A model of the call-log session reconstruction of                       *)
(* bin/logs-notebook/call_log_parser.py: the line loop of _parse_calls,    *)
(* the finalisation of the raw sessions (create_call, clean_columns,       *)
(* ice_network_route_change_lines_to_df) and _match_call_ids.              *)
(*                                                                         *)
(* Python strings on which the code does character work (call ids, the     *)
(* cells of a stats table, the unit suffixes) are sequences of one-        *)
(* character strings; strings the code only compares or stores are TLA+    *)
(* strings.  A log line is a record of the features the code's substring   *)
(* tests, regular expressions and splits read from it.                     *)
(***************************************************************************)
EXTENDS Integers, Sequences, FiniteSets, TLC

VARIABLES
    last,        \* _parse_calls: the loop variable `line`, the line of `logs` read last
    read,        \* _parse_calls: how many lines of `logs` the loop has read
    hist,        \* history: per start marker read, the lines read from it on while a
                 \* session was open (the marker first)
    raw_calls,   \* _parse_calls: the list raw_calls
    raw_call,    \* _parse_calls: the dict raw_call ({} when no session is open)
    pc,          \* _parse_calls: "loop", "returned", "raised"; "off" in other specifications
    result,      \* _parse_calls: the returned list of Call objects, or the exception raised
    results,     \* _match_call_ids: the parameter `results` (list of lists of calls)
    matched,     \* _match_call_ids: the returned lists, or the exception raised
    mpc,         \* _match_call_ids: "load", "returned", "raised"; "off" in other specifications
    df,          \* clean_columns: the data frame under cleaning
    df0,         \* clean_columns: the data frame as passed in
    col,         \* clean_columns: index into numeric_columns of the column being cleaned
    drops,       \* clean_columns: number of executions of df = df.iloc[1:, :] so far
    cpc,         \* clean_columns: "clean", "returned"; "off" in other specifications
    self,        \* Call: the session a method is called on
    arg,         \* Call: the argument of the method call (query or ssrc)
    shown,       \* Call: what the method printed or plotted, or the exception raised
    kpc,         \* Call: "idle", "called"; "off" in other specifications
    desc_calls,  \* describe: the parameter `calls`
    table,       \* describe: the rows of the returned frame
    dpc,         \* describe: "build", "returned"; "off" in other specifications
    rtt,         \* compute_emos: the parameter rtt (ms)
    jitter,      \* compute_emos: the parameter jitter (ms)
    fractionLost, \* compute_emos: the parameter fractionLost, in tenths
    rFactor,     \* compute_emos: the local rFactor, in thousandths
    mos,         \* compute_emos: the returned value, in units of 10^-15
    epc,         \* compute_emos: "call", "latency", "loss", "returned"; "off" in other specifications
    lread,       \* parse_log.py: how many lines of the file have been read
    events,      \* parse_log.py: the events parse_events has yielded, each with the
                 \* number of its line and the patterns that match the line
    audio_receive_stats_by_ssrc,   \* parse_log.py: the dict of that name
    video_receive_stats_by_ssrc,   \* parse_log.py: the dict of that name
    printed,     \* parse_log.py: the sample lines print_stats has printed
    lpc,         \* parse_log.py: "loop", "done", "raised"; "off" in other specifications
    lists,       \* _parse_calls, objects: the list objects made so far, by address
    dicts,       \* _parse_calls, objects: the dict objects made so far, by address
    raw_call_at, \* _parse_calls, objects: the address of the dict raw_call is bound to
    raw_calls_at, \* _parse_calls, objects: the list raw_calls, as addresses of dicts
    emitted,     \* history: each element of raw_calls as it was when it was appended
    aread,       \* _parse_calls, objects: how many lines the loop has read
    apc,         \* _parse_calls, objects: "loop", "returned", "raised"; "off" in other specifications
    sline,       \* extract_timestamp: the parameter line, as characters
    stamp,       \* extract_timestamp: the returned text and the grammar that gave it
    spc,         \* extract_timestamp: "call", "returned"; "off" in other specifications
    vline,       \* parse_video_receive_stats: the parameter line
    vevent,      \* parse_video_receive_stats: the outcome (an event, None or an exception)
    vpc,         \* parse_video_receive_stats: "call", "returned"; "off" in other specifications
    revents,     \* parse_log.py, routes: the events parse_events has yielded so far
    start,       \* parse_log.py, routes: the variable start (None or the CallStart event)
    period,      \* parse_log.py, routes: the variable period (None or a NetworkRoutePeriod)
    rprinted,    \* parse_log.py, routes: what the loop has printed about calls and periods
    rpc          \* parse_log.py, routes: "loop", "done"; "off" in other specifications

vars == <<last, read, hist, raw_calls, raw_call, pc, result, results, matched, mpc, df, df0, col, drops, cpc,
          self, arg, shown, kpc, desc_calls, table, dpc, rtt, jitter, fractionLost, rFactor, mos, epc,
          lread, events, audio_receive_stats_by_ssrc, video_receive_stats_by_ssrc, printed, lpc,
          lists, dicts, raw_call_at, raw_calls_at, emitted, aread, apc,
          sline, stamp, spc, vline, vevent, vpc, revents, start, period, rprinted, rpc>>

parseVars == <<last, read, hist, raw_calls, raw_call, pc, result>>
matchVars == <<results, matched, mpc>>
cleanVars == <<df, df0, col, drops, cpc>>
callVars == <<self, arg, shown, kpc>>
descVars == <<desc_calls, table, dpc>>
emosVars == <<rtt, jitter, fractionLost, rFactor, mos, epc>>
logVars == <<lread, events, audio_receive_stats_by_ssrc, video_receive_stats_by_ssrc, printed, lpc>>
\* the variables of the methods of Call, of describe, of compute_emos and of parse_log.py
heapVars == <<lists, dicts, raw_call_at, raw_calls_at, emitted, aread, apc>>
\* the variables of the specifications that follow parse_log.py
stampVars == <<sline, stamp, spc>>
videoVars == <<vline, vevent, vpc>>
routeVars == <<revents, start, period, rprinted, rpc>>
lateVars == <<heapVars, stampVars, videoVars, routeVars>>
\* the variables of _parse_calls, _match_call_ids, clean_columns, the methods
\* of Call, describe, compute_emos and parse_log.py
earlyVars == <<parseVars, matchVars, cleanVars, callVars, descVars, emosVars, logVars>>
restVars == <<callVars, descVars, emosVars, logVars, lateVars>>

(***************************************************************************)
(* Bounds of the model.                                                    *)
(***************************************************************************)
MaxLines == 3      \* longest input of _parse_calls
MaxTs == 2         \* timestamps on marker lines are 1..MaxTs
MaxLists == 3      \* most lists handed to _match_call_ids
MaxCalls == 4      \* most calls in all the lists handed to _match_call_ids together
MaxRows == 3       \* most rows of a table handed to clean_columns

(***************************************************************************)
(* Python helpers.                                                         *)
(***************************************************************************)
\* A Python exception of the given class, as the outcome of an evaluation.
Raise(cls) == [exc |-> cls]
\* A normal outcome carrying a value.
Return(v) == [exc |-> "", val |-> v]

\* The empty dict {}.
EmptyDict == [k \in {} |-> 0]
\* Truth value of a dict: non-empty.
Truthy(d) == DOMAIN d # {}

\* Python slice s[a:b] with 0-based a, b already clamped to 0..len(s).
Slice(s, a, b) == IF a >= b THEN <<>> ELSE SubSeq(s, a + 1, b)
\* max/min of two integers
Max2(a, b) == IF a >= b THEN a ELSE b
\* s[-n:] for n > 0
LastN(s, n) == Slice(s, Max2(Len(s) - n, 0), Len(s))
\* s[-a:-b] for a > b > 0
NegSlice(s, a, b) == Slice(s, Max2(Len(s) - a, 0), Max2(Len(s) - b, 0))
\* s.startswith(p)
StartsWith(s, p) == Len(s) >= Len(p) /\ SubSeq(s, 1, Len(p)) = p

\* The set of elements of a sequence.
Range(s) == {s[i] : i \in 1..Len(s)}

GROUP_CALL_TYPE == "Group"
Unknown == <<"U", "n", "k", "n", "o", "w", "n">>

(***************************************************************************)
(* Log lines.                                                              *)
(***************************************************************************)
A_start == "on_start_call"
A_group == "Group Client created with id"
A_term == "terminate_call"
A_delete == "delete_group_call_client"
A_ice == "ice_network_route_change"
A_connection == "ringrtc_stats!,connection,"
A_audio_send == "ringrtc_stats!,audio,send"
A_audio_recv == "ringrtc_stats!,audio,recv"
A_video_send == "ringrtc_stats!,video,send"
A_video_recv == "ringrtc_stats!,video,recv"
A_sfu_recv == "ringrtc_stats!,sfu,recv"
A_track == "handle_incoming_video_track(): id"
A_key == "Adding media receive key from"

\* A line: `has` the anchor substrings it contains; android/desktop/ios the
\* first match of each timestamp grammar (0: no match); id the first match of
\* the call id pattern (<<>>: no match); dir the word after "direction: "
\* ("": no match); tab whether it holds a tab; brace what follows its first
\* "{" ("none": no "{", "route": "{ k: v, ... }", "bare": "{" not followed by
\* a blank); cells its comma separated fields after the anchor; demux the
\* number after "remote_demux_id: " or "from " (0: none); txt the rest.
Line(has, android, id, dir, tab, brace, cells, txt) ==
    [has |-> has, android |-> android, desktop |-> 0, ios |-> 0, id |-> id,
     dir |-> dir, tab |-> tab, brace |-> brace, cells |-> cells, demux |-> 0, txt |-> txt]

IdA == <<"0", "x", "1", "a", "b", "c">>
Cell100 == <<"1", "0", "0", "b", "p", "s">>
Cell200 == <<"2", "0", "0", "b", "p", "s">>
HdrBitrate == <<"b", "i", "t", "r", "a", "t", "e">>

StartLines ==
    { Line({A_start}, t, IdA, "Outgoing", FALSE, "none", <<>>, 0) : t \in 1..MaxTs }
    \cup { Line({A_start}, 1, <<>>, "Outgoing", FALSE, "none", <<>>, 0),
           Line({A_start}, 1, IdA, "", FALSE, "none", <<>>, 0) }
GroupLines ==
    { Line({A_group}, t, <<>>, "", FALSE, "none", <<>>, 0) : t \in 1..MaxTs }
    \cup { Line({A_group}, 1, IdA, "", FALSE, "none", <<>>, 0) }
TermLines ==
    { Line({A_term}, t, <<>>, "", FALSE, "none", <<>>, 0) : t \in 1..MaxTs }
    \cup { Line({A_delete}, 1, <<>>, "", FALSE, "none", <<>>, 0) }
IceLines ==
    { Line({A_ice}, 1, <<>>, "", TRUE, "route", <<>>, 0),
      Line({A_ice}, 1, <<>>, "", FALSE, "route", <<>>, 0),
      Line({A_ice}, 1, <<>>, "", TRUE, "none", <<>>, 0) }
StatsLines ==
    { Line({a}, 1, <<>>, "", FALSE, "none", <<Cell100>>, 0) :
        a \in {A_connection, A_audio_send, A_audio_recv, A_video_send, A_video_recv, A_sfu_recv} }
    \cup { Line({A_connection}, 1, <<>>, "", FALSE, "none", <<HdrBitrate>>, 0) }
KeyLines ==
    { [Line({A_track}, 1, <<>>, "", FALSE, "none", <<>>, 0) EXCEPT !.demux = 7],
      Line({A_key}, 1, <<>>, "", FALSE, "none", <<>>, 0) }
OtherLines ==
    { Line({}, 1, <<>>, "", FALSE, "none", <<>>, n) : n \in 1..2 }
\* lines holding two anchors: the elif chain decides
MixedLines ==
    { Line({A_start, A_term}, 1, IdA, "", FALSE, "none", <<>>, 0),
      Line({A_term, A_connection}, 1, <<>>, "", FALSE, "none", <<Cell200>>, 0) }

\* the value of `last` before the loop has read anything
NoLine == Line({}, 0, <<>>, "", FALSE, "none", <<>>, 0)

\* the line holds one of the two start anchors
IsStartMarker(l) == A_start \in l.has \/ A_group \in l.has
\* the line holds one of the two termination anchors (and no start anchor,
\* which the elif chain would take first)
IsEndMarker(l) == ~IsStartMarker(l) /\ (A_term \in l.has \/ A_delete \in l.has)

Lines == StartLines \cup GroupLines \cup TermLines \cup IceLines \cup StatsLines
            \cup KeyLines \cup OtherLines \cup MixedLines

(***************************************************************************)
(* _parse_calls: the nested helpers of the line loop.                      *)
(***************************************************************************)
EmptyStr == [fmt |-> "empty"]

new_raw_call ==
    [connection |-> <<>>, ice_network_route_change |-> <<>>, audio_send |-> <<>>,
     audio_recv |-> <<>>, video_send |-> <<>>, video_recv |-> <<>>, sfu_recv |-> <<>>,
     media_key_recv |-> <<>>, logs |-> <<>>, start |-> EmptyStr, end |-> EmptyStr,
     type |-> "Unknown", id |-> Unknown]

\* re.findall of one grammar, then the next; the line itself when none matches
extract_timestamp(line) ==
    IF line.android # 0 THEN [fmt |-> "android", t |-> line.android]
    ELSE IF line.desktop # 0 THEN [fmt |-> "desktop", t |-> line.desktop]
    ELSE IF line.ios # 0 THEN [fmt |-> "ios", t |-> line.ios]
    ELSE [fmt |-> "line", line |-> line]

\* id = re.findall(...); id[0] if isinstance(id[0], str) and len(id) > 0 else 'Unknown'
\* The condition reads id[0] before it tests len(id).
extract_call_id(line) ==
    LET id == IF line.id = <<>> THEN <<>> ELSE <<line.id>> IN
    IF Len(id) = 0 THEN Raise("IndexError")
    ELSE IF Len(id) > 0 THEN Return(id[1]) ELSE Return(Unknown)

\* Mutation of append: the value is put on the ancillary list as well.
append_AlsoLogs(rc, key, value) ==
    IF Truthy(rc) THEN [rc EXCEPT ![key] = Append(@, value), !.logs = Append(@, value)] ELSE rc

\* append(key, value): if raw_call: raw_call[key].append(value)
append(rc, key, value) ==
    IF Truthy(rc) THEN [rc EXCEPT ![key] = Append(@, value)] ELSE rc

\* The state of the loop after one iteration: the two locals, and the
\* exception class when the iteration raised ("" otherwise).
Loop(rcs, rc, exc) == [raw_calls |-> rcs, raw_call |-> rc, exc |-> exc]

\* Mutation of CloseOpen: the open session is dropped instead of emitted.
CloseOpen_Drop(rcs, rc) == rcs

\* if raw_call: raw_calls.append(dict(raw_call)); raw_call.clear()
\* (the copy is shallow, but the cleared dict's lists are never touched again)
CloseOpen(rcs, rc) == IF Truthy(rc) THEN Append(rcs, rc) ELSE rcs

\* branch: 'on_start_call' in line
OnStart(rcs, rc, line) ==
    LET closed == CloseOpen(rcs, rc)
        started == [new_raw_call EXCEPT !.start = extract_timestamp(line)]
        id == extract_call_id(line)
    IN  IF id.exc # "" THEN Loop(closed, started, id.exc)
        ELSE LET withId == [started EXCEPT !.id = id.val]
             IN  Loop(closed,
                      IF line.dir # "" THEN [withId EXCEPT !.type = line.dir] ELSE withId,
                      "")

\* branch: 'Group Client created with id' in line
OnGroup(rcs, rc, line) ==
    Loop(CloseOpen(rcs, rc),
         [new_raw_call EXCEPT !.start = extract_timestamp(line), !.type = GROUP_CALL_TYPE],
         "")

\* Mutation of OnTerminate: the marker's timestamp becomes the start, the
\* start the end.
OnTerminate_SwapsEnds(rcs, rc, line) ==
    Loop(Append(rcs, [rc EXCEPT !.end = rc.start, !.start = extract_timestamp(line)]),
         EmptyDict, "")

\* Mutation of OnTerminate: raw_call.clear() is left out.
OnTerminate_NoClear(rcs, rc, line) ==
    Loop(Append(rcs, [rc EXCEPT !.end = extract_timestamp(line)]), rc, "")

\* branch: ('terminate_call' in line or 'delete_group_call_client' in line) and raw_call
OnTerminate(rcs, rc, line) ==
    Loop(Append(rcs, [rc EXCEPT !.end = extract_timestamp(line)]), EmptyDict, "")

\* Mutation of OnOther: the line is put in front of the list.
OnOther_Prepend(rcs, rc, line) == Loop(rcs, [rc EXCEPT !.logs = <<line>> \o @], "")

\* branch: elif raw_call: raw_call['logs'].append(line)
OnOther(rcs, rc, line) == Loop(rcs, [rc EXCEPT !.logs = Append(@, line)], "")

\* One iteration of `for line in logs`: the if/elif chain, first match wins.
LoopBody(rcs, rc, line) ==
    IF A_start \in line.has THEN OnStart(rcs, rc, line)
    ELSE IF A_group \in line.has THEN OnGroup(rcs, rc, line)
    ELSE IF (A_term \in line.has \/ A_delete \in line.has) /\ Truthy(rc)
        THEN OnTerminate(rcs, rc, line)
    ELSE IF A_ice \in line.has THEN Loop(rcs, append(rc, "ice_network_route_change", line), "")
    ELSE IF A_connection \in line.has THEN Loop(rcs, append(rc, "connection", line), "")
    ELSE IF A_audio_send \in line.has THEN Loop(rcs, append(rc, "audio_send", line), "")
    ELSE IF A_audio_recv \in line.has THEN Loop(rcs, append(rc, "audio_recv", line), "")
    ELSE IF A_video_send \in line.has THEN Loop(rcs, append(rc, "video_send", line), "")
    ELSE IF A_video_recv \in line.has THEN Loop(rcs, append(rc, "video_recv", line), "")
    ELSE IF A_sfu_recv \in line.has THEN Loop(rcs, append(rc, "sfu_recv", line), "")
    ELSE IF A_track \in line.has THEN Loop(rcs, append(rc, "media_key_recv", line), "")
    ELSE IF A_key \in line.has THEN Loop(rcs, append(rc, "media_key_recv", line), "")
    ELSE IF Truthy(rc) THEN OnOther(rcs, rc, line)
    ELSE Loop(rcs, rc, "")

(***************************************************************************)
(* Tables (pandas data frames) and clean_columns.                          *)
(* A frame is [columns, rows]: the column names, and the rows as sequences *)
(* of cells in column order.  A cell is a str, a number or NaN.  The      *)
(* leading timestamp column of a stats table is left out of the frame.     *)
(***************************************************************************)
Str(s) == [k |-> "str", s |-> s, n |-> 0]
Num(n) == [k |-> "num", s |-> <<>>, n |-> n]
NaN == [k |-> "nan", s |-> <<>>, n |-> 0]

Digit == [c \in {"0", "1", "2", "3", "4", "5", "6", "7", "8", "9"} |->
            CASE c = "0" -> 0 [] c = "1" -> 1 [] c = "2" -> 2 [] c = "3" -> 3 [] c = "4" -> 4
              [] c = "5" -> 5 [] c = "6" -> 6 [] c = "7" -> 7 [] c = "8" -> 8 [] c = "9" -> 9]

\* the text is a decimal integer literal
IsDecimal(s) == Len(s) > 0 /\ \A i \in 1..Len(s) : s[i] \in DOMAIN Digit

RECURSIVE DecimalValue(_)
DecimalValue(s) ==
    IF Len(s) = 0 THEN 0 ELSE 10 * DecimalValue(SubSeq(s, 1, Len(s) - 1)) + Digit[s[Len(s)]]

\* str.rstrip(chars): drop the trailing characters that occur in chars
RECURSIVE rstrip(_, _)
rstrip(s, chars) ==
    IF Len(s) > 0 /\ s[Len(s)] \in Range(chars) THEN rstrip(SubSeq(s, 1, Len(s) - 1), chars)
    ELSE s

\* pd.to_numeric of one str: a number, NaN for the empty string, ValueError otherwise
to_numeric(s) ==
    IF Len(s) = 0 THEN Return(NaN)
    ELSE IF IsDecimal(s) THEN Return(Num(DecimalValue(s)))
    ELSE Raise("ValueError")

numeric_columns ==
    <<
       <<<<"b", "i", "t", "r", "a", "t", "e">>,
         <<"b", "p", "s">>>>,
       <<<<"a", "v", "a", "i", "l", "a", "b", "l", "e", "_", "o", "u", "t", "g", "o", "i", "n", "g", "_", "b", "i", "t", "r", "a", "t", "e">>,
         <<"b", "p", "s">>>>,
       <<<<"r", "e", "t", "r", "a", "n", "s", "m", "i", "t", "t", "e", "d", "_", "b", "i", "t", "r", "a", "t", "e">>,
         <<"b", "p", "s">>>>,
       <<<<"p", "a", "c", "k", "e", "t", "s", "_", "l", "o", "s", "t", "_", "p", "c", "t">>,
         <<"%">>>>,
       <<<<"r", "e", "m", "o", "t", "e", "_", "p", "a", "c", "k", "e", "t", "s", "_", "l", "o", "s", "t", "_", "p", "c", "t">>,
         <<"%">>>>,
       <<<<"j", "i", "t", "t", "e", "r">>,
         <<"m", "s">>>>,
       <<<<"j", "i", "t", "t", "e", "r", "_", "b", "u", "f", "f", "e", "r", "_", "d", "e", "l", "a", "y">>,
         <<"m", "s">>>>,
       <<<<"r", "e", "m", "o", "t", "e", "_", "j", "i", "t", "t", "e", "r">>,
         <<"m", "s">>>>,
       <<<<"c", "u", "r", "r", "e", "n", "t", "_", "r", "o", "u", "n", "d", "_", "t", "r", "i", "p", "_", "t", "i", "m", "e">>,
         <<"m", "s">>>>,
       <<<<"r", "e", "m", "o", "t", "e", "_", "r", "o", "u", "n", "d", "_", "t", "r", "i", "p", "_", "t", "i", "m", "e">>,
         <<"m", "s">>>>,
       <<<<"e", "n", "c", "o", "d", "e", "_", "t", "i", "m", "e", "_", "p", "e", "r", "_", "f", "r", "a", "m", "e">>,
         <<"m", "s">>>>,
       <<<<"d", "e", "c", "o", "d", "e", "_", "t", "i", "m", "e", "_", "p", "e", "r", "_", "f", "r", "a", "m", "e">>,
         <<"m", "s">>>>,
       <<<<"s", "e", "n", "d", "_", "d", "e", "l", "a", "y", "_", "p", "e", "r", "_", "p", "a", "c", "k", "e", "t">>,
         <<"m", "s">>>>,
       <<<<"f", "r", "a", "m", "e", "r", "a", "t", "e">>,
         <<"f", "p", "s">>>>,
       <<<<"p", "a", "c", "k", "e", "t", "s", "_", "p", "e", "r", "_", "s", "e", "c", "o", "n", "d">>,
         <<>>>>,
       <<<<"a", "v", "e", "r", "a", "g", "e", "_", "p", "a", "c", "k", "e", "t", "_", "s", "i", "z", "e">>,
         <<>>>>,
       <<<<"a", "u", "d", "i", "o", "_", "e", "n", "e", "r", "g", "y">>,
         <<>>>>,
       <<<<"k", "e", "y", "_", "f", "r", "a", "m", "e", "s", "_", "e", "n", "c", "o", "d", "e", "d">>,
         <<>>>>,
       <<<<"k", "e", "y", "_", "f", "r", "a", "m", "e", "s", "_", "d", "e", "c", "o", "d", "e", "d">>,
         <<>>>>,
       <<<<"r", "e", "t", "r", "a", "n", "s", "m", "i", "t", "t", "e", "d", "_", "p", "a", "c", "k", "e", "t", "s", "_", "s", "e", "n", "t">>,
         <<>>>>,
       <<<<"n", "a", "c", "k", "_", "c", "o", "u", "n", "t">>,
         <<>>>>,
       <<<<"p", "l", "i", "_", "c", "o", "u", "n", "t">>,
         <<>>>>,
       <<<<"q", "u", "a", "l", "i", "t", "y", "_", "l", "i", "m", "i", "t", "a", "t", "i", "o", "n", "_", "r", "e", "s", "o", "l", "u", "t", "i", "o", "n", "_", "c", "h", "a", "n", "g", "e", "s">>,
         <<>>>>,
       <<<<"t", "a", "r", "g", "e", "t", "_", "s", "e", "n", "d", "_", "r", "a", "t", "e">>,
         <<>>>>,
       <<<<"i", "d", "e", "a", "l", "_", "s", "e", "n", "d", "_", "r", "a", "t", "e">>,
         <<>>>>,
       <<<<"a", "l", "l", "o", "c", "a", "t", "e", "d", "_", "s", "e", "n", "d", "_", "r", "a", "t", "e">>,
         <<>>>>
    >>

\* The cells of column number j of a frame.
Column(d, j) == [r \in 1..Len(d.rows) |-> d.rows[r][j]]
\* The position of a column name among the frame's columns, 0 when absent.
ColumnIndex(d, name) ==
    IF \E j \in 1..Len(d.columns) : d.columns[j] = name
    THEN CHOOSE j \in 1..Len(d.columns) :
            d.columns[j] = name /\ \A h \in 1..(j - 1) : d.columns[h] # name
    ELSE 0

\* is_numeric_dtype of a column: read_csv and to_numeric give a numeric dtype
\* to a column all of whose cells are numbers; a column without rows that
\* read_csv made has dtype object.
is_numeric_dtype(cells) ==
    Len(cells) > 0 /\ \A r \in 1..Len(cells) : cells[r].k \in {"num", "nan"}

\* pd.read_csv of a header and rows of text fields: a column whose fields
\* are all decimal becomes numeric, any other stays str.
read_csv(columns, rows) ==
    LET numeric(j) == Len(rows) > 0 /\ \A r \in 1..Len(rows) : IsDecimal(rows[r][j])
    IN  [columns |-> columns,
         rows |-> [r \in 1..Len(rows) |->
                     [j \in 1..Len(columns) |->
                        IF numeric(j) THEN Num(DecimalValue(rows[r][j])) ELSE Str(rows[r][j])]]]

EmptyFrame == [columns |-> <<>>, rows |-> <<>>]

\* One pass through the body of `while True` for numeric_columns[i], or the
\* skip of that column when its name is not in the frame: the frame after
\* it, the column to go on with, and whether a row was dropped.
CleanIter(d, i) ==
    LET name == numeric_columns[i][1]
        suffix == numeric_columns[i][2]
        j == ColumnIndex(d, name)
    IN  IF j = 0 THEN [df |-> d, col |-> i + 1, dropped |-> FALSE]
        ELSE IF is_numeric_dtype(Column(d, j)) THEN [df |-> d, col |-> i + 1, dropped |-> FALSE]
        ELSE LET conv == [r \in 1..Len(d.rows) |-> to_numeric(rstrip(d.rows[r][j].s, suffix))]
             IN  IF \E r \in 1..Len(d.rows) : conv[r].exc # ""
                 THEN \* except ValueError: df = df.iloc[1:, :]
                      [df |-> [d EXCEPT !.rows = Tail(@)], col |-> i, dropped |-> TRUE]
                 ELSE [df |-> [d EXCEPT !.rows =
                                  [r \in 1..Len(d.rows) |-> [d.rows[r] EXCEPT ![j] = conv[r].val]]],
                       col |-> i + 1, dropped |-> FALSE]

\* clean_columns from column i of numeric_columns on
RECURSIVE CleanFrom(_, _)
CleanFrom(d, i) ==
    IF i > Len(numeric_columns) THEN d
    ELSE LET it == CleanIter(d, i) IN CleanFrom(it.df, it.col)

clean_columns(d) == IF Len(d.columns) = 0 THEN d ELSE CleanFrom(d, 1)

(***************************************************************************)
(* _parse_calls: the finalisation of the raw sessions.                     *)
(***************************************************************************)
\* lines_to_df: the first line read is the header of the frame
lines_to_df(lines) ==
    IF Len(lines) = 0 THEN EmptyFrame
    ELSE read_csv(lines[1].cells, [r \in 1..(Len(lines) - 1) |-> lines[r + 1].cells])

\* ice_network_route_change_lines_to_df: line.split('\t')[1] is read before
\* the test for '{'; line.split("{ ")[1] after it.  One row per route line.
RECURSIVE ice_rows(_)
ice_rows(lines) ==
    IF Len(lines) = 0 THEN Return(<<>>)
    ELSE LET line == lines[1] IN
         IF ~line.tab THEN Raise("IndexError")
         ELSE IF line.brace = "bare" THEN Raise("IndexError")
         ELSE LET rest == ice_rows(Tail(lines)) IN
              IF rest.exc # "" THEN rest
              ELSE IF line.brace = "none" THEN rest
              ELSE Return(<<[timestamp |-> extract_timestamp(line)]>> \o rest.val)

ice_network_route_change_lines_to_df(lines) == ice_rows(lines)

\* media_key_recv_to_df: a row for each line that carries a demux id
media_key_recv_to_df(lines) ==
    LET kept == SelectSeq(lines, LAMBDA l : l.demux # 0)
    IN  [r \in 1..Len(kept) |->
            [timestamp |-> extract_timestamp(kept[r]), demux_id |-> kept[r].demux,
             event |-> IF A_track \in kept[r].has THEN "added" ELSE "received key"]]

\* create_call; the mos columns are left out of the frames
create_call(raw) ==
    LET ice == ice_network_route_change_lines_to_df(raw.ice_network_route_change) IN
    IF ice.exc # "" THEN ice
    ELSE Return([id |-> raw.id,
                 connection |-> clean_columns(lines_to_df(raw.connection)),
                 audio_send |-> clean_columns(lines_to_df(raw.audio_send)),
                 audio_recv |-> clean_columns(lines_to_df(raw.audio_recv)),
                 video_send |-> clean_columns(lines_to_df(raw.video_send)),
                 video_recv |-> clean_columns(lines_to_df(raw.video_recv)),
                 sfu_recv |-> clean_columns(lines_to_df(raw.sfu_recv)),
                 ice_network_route_change |-> ice.val,
                 media_key_recv |-> media_key_recv_to_df(raw.media_key_recv),
                 logs |-> raw.logs,
                 start |-> raw.start, end |-> raw.end, type |-> raw.type])

\* [create_call(raw_call) for raw_call in raw_calls]
create_calls(rcs) ==
    LET made == [r \in 1..Len(rcs) |-> create_call(rcs[r])] IN
    IF \E r \in 1..Len(rcs) : made[r].exc # ""
    THEN Raise(made[CHOOSE r \in 1..Len(rcs) :
                       made[r].exc # "" /\ \A q \in 1..(r - 1) : made[q].exc = ""].exc)
    ELSE Return([r \in 1..Len(rcs) |-> made[r].val])

(***************************************************************************)
(* _parse_calls as a state machine: the input is revealed line by line.    *)
(***************************************************************************)
MatchOff == results = <<>> /\ matched = <<>> /\ mpc = "off"
CleanOff == df = EmptyFrame /\ df0 = EmptyFrame /\ col = 0 /\ drops = 0 /\ cpc = "off"
CallOff == self = EmptyDict /\ arg = <<>> /\ shown = <<>> /\ kpc = "off"
DescOff == desc_calls = <<>> /\ table = <<>> /\ dpc = "off"
EmosOff == rtt = 0 /\ jitter = 0 /\ fractionLost = 0 /\ rFactor = 0 /\ mos = <<>> /\ epc = "off"
LogOff ==
    /\ lread = 0 /\ events = <<>> /\ audio_receive_stats_by_ssrc = <<>>
    /\ video_receive_stats_by_ssrc = <<>> /\ printed = <<>> /\ lpc = "off"
ParseOff == last = NoLine /\ read = 0 /\ hist = <<>> /\ raw_calls = <<>> /\ raw_call = EmptyDict /\ pc = "off" /\ result = <<>>
HeapOff ==
    /\ lists = <<>> /\ dicts = <<>> /\ raw_call_at = 0 /\ raw_calls_at = <<>>
    /\ emitted = <<>> /\ aread = 0 /\ apc = "off"
StampOff == sline = <<>> /\ stamp = <<>> /\ spc = "off"
VideoOff == vline = <<>> /\ vevent = <<>> /\ vpc = "off"
RouteOff == revents = <<>> /\ start = <<>> /\ period = <<>> /\ rprinted = <<>> /\ rpc = "off"
LateOff == HeapOff /\ StampOff /\ VideoOff /\ RouteOff
RestOff == CallOff /\ DescOff /\ EmosOff /\ LogOff /\ LateOff
EarlyOff == ParseOff /\ MatchOff /\ CleanOff /\ CallOff /\ DescOff /\ EmosOff /\ LogOff

Init ==
    /\ last = NoLine
    /\ read = 0
    /\ hist = <<>>
    /\ raw_calls = <<>>
    /\ raw_call = EmptyDict
    /\ pc = "loop"
    /\ result = <<>>
    /\ MatchOff
    /\ CleanOff
    /\ RestOff

\* for line in logs: one iteration
ParseLine ==
    /\ pc = "loop"
    /\ read < MaxLines
    /\ \E l \in Lines :
        LET after == LoopBody(raw_calls, raw_call, l) IN
        /\ last' = l
        /\ read' = read + 1
        /\ hist' = IF IsStartMarker(l) THEN Append(hist, <<l>>)
                   ELSE IF Truthy(raw_call) THEN [hist EXCEPT ![Len(hist)] = Append(@, l)]
                   ELSE hist
        /\ raw_calls' = after.raw_calls
        /\ raw_call' = after.raw_call
        /\ pc' = IF after.exc # "" THEN "raised" ELSE "loop"
        /\ result' = IF after.exc # "" THEN Raise(after.exc) ELSE result
    /\ UNCHANGED <<matchVars, cleanVars, restVars>>

\* the input is exhausted: if raw_call: raw_calls.append(raw_call); return [...]
ParseReturn ==
    /\ pc = "loop"
    /\ LET all == CloseOpen(raw_calls, raw_call)
           created == create_calls(all)
       IN  /\ raw_calls' = all
           /\ pc' = IF created.exc # "" THEN "raised" ELSE "returned"
           /\ result' = created
    /\ UNCHANGED <<last, read, hist, raw_call, matchVars, cleanVars, restVars>>

Next == ParseLine \/ ParseReturn

Spec == Init /\ [][Next]_vars

(***************************************************************************)
(* Properties of _parse_calls.                                             *)
(***************************************************************************)
\* the step is one iteration of the line loop
ReadsLine == read' = read + 1
\* the step is the end of the input
EndsInput == pc = "loop" /\ pc' # "loop" /\ read' = read
\* a line that holds no anchor, so that no branch of the chain but the last takes it
Unmatched(l) == l.has = {}
\* the category a stats or event line belongs to by its first anchor in the
\* order of the chain ("" when it holds none of the nine)
CategoryOf(l) ==
    IF A_ice \in l.has THEN "ice_network_route_change"
    ELSE IF A_connection \in l.has THEN "connection"
    ELSE IF A_audio_send \in l.has THEN "audio_send"
    ELSE IF A_audio_recv \in l.has THEN "audio_recv"
    ELSE IF A_video_send \in l.has THEN "video_send"
    ELSE IF A_video_recv \in l.has THEN "video_recv"
    ELSE IF A_sfu_recv \in l.has THEN "sfu_recv"
    ELSE IF A_track \in l.has \/ A_key \in l.has THEN "media_key_recv"
    ELSE ""
CategoryKeys ==
    {"ice_network_route_change", "connection", "audio_send", "audio_recv", "video_send",
     "video_recv", "sfu_recv", "media_key_recv"}
\* the lines of a history segment after its start marker that are not markers
Body(seg) == SelectSeq(Tail(seg), LAMBDA l : ~IsEndMarker(l))
\* the unmatched lines of a history segment, in order
Ancillary(seg) == SelectSeq(Body(seg), Unmatched)
\* the lines of one category of a history segment, in order
Samples(seg, key) == SelectSeq(Body(seg), LAMBDA l : CategoryOf(l) = key)

\* C1: A start marker read while a session is open (a start marker followed
\* by a second one with no termination marker between them) leaves two
\* sessions: the loop goes on, the first session is emitted with an empty
\* end, and the open session is a new one whose start is the timestamp of the
\* second marker.
C1_SecondStartEmitsFirst ==
    [][ (ReadsLine /\ Truthy(raw_call) /\ IsStartMarker(last'))
        => /\ pc' = "loop"
           /\ raw_calls' = Append(raw_calls, raw_call)
           /\ raw_call.end = EmptyStr
           /\ Truthy(raw_call')
           /\ raw_call'.start = extract_timestamp(last')
           /\ raw_call'.end = EmptyStr ]_vars

\* C2: A termination marker read while a session is open emits that session
\* once, with the marker's timestamp as its end, and leaves no session open;
\* no step changes or removes a session already emitted, so no later line is
\* attached to it.
C2_TerminationClosesSession ==
    [][ /\ (ReadsLine /\ Truthy(raw_call) /\ IsEndMarker(last'))
            => /\ raw_calls' = Append(raw_calls, [raw_call EXCEPT !.end = extract_timestamp(last')])
               /\ ~Truthy(raw_call')
               /\ pc' = "loop"
        /\ Len(raw_calls') >= Len(raw_calls)
        /\ SubSeq(raw_calls', 1, Len(raw_calls)) = raw_calls
        /\ (ReadsLine /\ ~Truthy(raw_call) /\ ~IsStartMarker(last'))
            => (raw_calls' = raw_calls /\ ~Truthy(raw_call')) ]_vars

\* C2 witness: a session was closed by a termination marker and a further
\* line has been read after it, with no session open.
C2_Witness ==
    /\ pc = "loop" /\ read = 3 /\ Unmatched(last)
    /\ Len(raw_calls) = 1 /\ ~Truthy(raw_call)
    /\ raw_calls[1].end = [fmt |-> "android", t |-> 2]
    /\ raw_calls[1].logs = <<>>

C4_StartWithoutIdKeepsUnknown ==
    [][ (ReadsLine /\ A_start \in last'.has /\ last'.id = <<>>)
        => /\ pc' = "loop"
           /\ Truthy(raw_call')
           /\ raw_call'.id = Unknown ]_vars

\* C5: _parse_calls completes on every input.  Stated for the inputs whose
\* 'on_start_call' markers all carry a call id, so that a failure is one of
\* the finalisation and not the one of C4.
C5_ParseCompletes ==
    (\A k \in 1..Len(hist) : A_start \in hist[k][1].has => hist[k][1].id # <<>>)
        => pc # "raised"

\* C10: The ancillary list of every session, open or emitted, is exactly the
\* unmatched lines read while it was open, in order and verbatim; lines read
\* while no session is open reach no session.
C10_AncillaryIsUnmatchedLines ==
    /\ pc = "loop" =>
        /\ Len(raw_calls) + (IF Truthy(raw_call) THEN 1 ELSE 0) = Len(hist)
        /\ \A k \in 1..Len(raw_calls) : raw_calls[k].logs = Ancillary(hist[k])
        /\ Truthy(raw_call) => raw_call.logs = Ancillary(hist[Len(hist)])
    /\ pc = "returned" =>
        /\ Len(raw_calls) = Len(hist)
        /\ Len(result.val) = Len(hist)
        /\ \A k \in 1..Len(hist) :
            raw_calls[k].logs = Ancillary(hist[k]) /\ result.val[k].logs = Ancillary(hist[k])

\* C10 witness: an open session holds two different unmatched lines.
C10_Witness ==
    /\ pc = "loop" /\ Truthy(raw_call)
    /\ Len(raw_call.logs) = 2 /\ raw_call.logs[1] # raw_call.logs[2]

\* the timestamp of a line
Stamp(l) == extract_timestamp(l).t
\* the timestamps of the lines of a history segment never go back
NonDecreasing(seg) == \A i \in 1..(Len(seg) - 1) : Stamp(seg[i]) <= Stamp(seg[i + 1])

\* C14: Every emitted session that has an end and whose lines, from its
\* start marker to its termination marker, carry timestamps that never go
\* back has start <= end, in raw_calls and in the returned calls.
C14_StartNotAfterEnd ==
    \A k \in 1..Len(raw_calls) :
        (raw_calls[k].end # EmptyStr /\ NonDecreasing(hist[k])) =>
            /\ raw_calls[k].start.t <= raw_calls[k].end.t
            /\ pc = "returned" => result.val[k].start.t <= result.val[k].end.t

\* C14 witness: a session whose start marker is older than its termination
\* marker was emitted, a line read between the two.
C14_Witness ==
    /\ Len(raw_calls) = 1 /\ Len(hist[1]) = 3 /\ NonDecreasing(hist[1])
    /\ raw_calls[1].start.t = 1 /\ raw_calls[1].end.t = 2

\* the category each anchor of a stats or event line stands for
AnchorKey ==
    [a \in {A_ice, A_connection, A_audio_send, A_audio_recv, A_video_send, A_video_recv,
            A_sfu_recv, A_track, A_key} |->
        CASE a = A_ice -> "ice_network_route_change"
          [] a = A_connection -> "connection"
          [] a = A_audio_send -> "audio_send"
          [] a = A_audio_recv -> "audio_recv"
          [] a = A_video_send -> "video_send"
          [] a = A_video_recv -> "video_recv"
          [] a = A_sfu_recv -> "sfu_recv"
          [] a = A_track -> "media_key_recv"
          [] a = A_key -> "media_key_recv"]
\* a stats or event line: it holds category anchors and no marker
IsSampleLine(l) == l.has # {} /\ l.has \subseteq DOMAIN AnchorKey

\* C20: A stats or event line read while a session is open is appended to
\* one category sequence of the open session, that of an anchor it holds,
\* and nothing else of the session nor any emitted session changes; read
\* while no session is open it changes nothing.
C20_SampleGoesToItsCategory ==
    [][ (ReadsLine /\ IsSampleLine(last')) =>
            /\ pc' = "loop"
            /\ raw_calls' = raw_calls
            /\ IF Truthy(raw_call)
               THEN \E a \in last'.has :
                        raw_call' = [raw_call EXCEPT ![AnchorKey[a]] = Append(@, last')]
               ELSE raw_call' = raw_call ]_vars

\* C20 witness: an audio-receive sample was read after an ancillary line
\* while a session was open.
C20_Witness ==
    /\ pc = "loop" /\ read = 3 /\ Truthy(raw_call)
    /\ last.has = {A_audio_recv}
    /\ raw_call.audio_recv = <<last>> /\ Len(raw_call.logs) = 1
    /\ raw_call.connection = <<>>

\* the fields a start marker gives the session it opens, as the claim C21
\* states them
TypeOfMarker(l) ==
    IF A_start \in l.has THEN (IF l.dir # "" THEN l.dir ELSE "Unknown") ELSE GROUP_CALL_TYPE
IdOfMarker(l) == IF l.id # <<>> THEN l.id ELSE Unknown

\* C21: A session opened by an 'on_start_call' marker has start = the
\* marker's timestamp, type = the marker's direction (or 'Unknown') and id =
\* the id extracted from the marker; a session opened by a 'Group Client
\* created with id' marker has start = the marker's timestamp, type 'Group'
\* and the call id of the marker when the marker carries one, 'Unknown'
\* otherwise.  (Steps in which the marker makes the loop raise are left out.)
C21_MarkerFillsSession ==
    [][ (ReadsLine /\ IsStartMarker(last') /\ pc' = "loop")
        => /\ Truthy(raw_call')
           /\ raw_call'.start = extract_timestamp(last')
           /\ raw_call'.type = TypeOfMarker(last')
           /\ raw_call'.id = IdOfMarker(last') ]_vars

\* what holds of the code instead: the same, but a session opened by a group
\* marker has the id 'Unknown' whatever the marker carries
MarkerFillsSessionButGroupId ==
    [][ (ReadsLine /\ IsStartMarker(last') /\ pc' = "loop")
        => /\ Truthy(raw_call')
           /\ raw_call'.start = extract_timestamp(last')
           /\ raw_call'.type = TypeOfMarker(last')
           /\ raw_call'.id = IF A_start \in last'.has THEN IdOfMarker(last') ELSE Unknown
           /\ raw_call'.end = EmptyStr /\ raw_call'.logs = <<>> ]_vars

\* C28: After any input the sessions returned are as many as the start
\* markers read, one per marker and in the order of the markers; while the
\* loop runs, every marker read has its session either emitted or open, and a
\* termination marker read while no session is open emits nothing and
\* leaves no session open.
C28_OneSessionPerStartMarker ==
    /\ pc = "loop" => Len(raw_calls) + (IF Truthy(raw_call) THEN 1 ELSE 0) = Len(hist)
    /\ pc \in {"returned", "raised"} =>
          /\ result.exc = ""
          /\ Len(result.val) = Len(hist)
          /\ \A i \in 1..Len(hist) : result.val[i].start = extract_timestamp(hist[i][1])

\* what holds of the code instead: the count and the order hold of raw_calls
\* while the loop runs and of the result whenever _parse_calls returns
SessionsFollowStartMarkers ==
    /\ pc = "loop" =>
          /\ Len(raw_calls) + (IF Truthy(raw_call) THEN 1 ELSE 0) = Len(hist)
          /\ \A i \in 1..Len(raw_calls) : raw_calls[i].start = extract_timestamp(hist[i][1])
          /\ Truthy(raw_call) => raw_call.start = extract_timestamp(hist[Len(hist)][1])
    /\ pc = "returned" =>
          /\ Len(result.val) = Len(hist)
          /\ \A i \in 1..Len(hist) : result.val[i].start = extract_timestamp(hist[i][1])

(***************************************************************************)
(* _match_call_ids.  A call is the record of the one attribute the         *)
(* function reads, its id, and of its type.                                *)
(***************************************************************************)
REDACTED_PREFIX == <<"0", "x", "[", " ", "R", "E", "D", "A", "C", "T", "E", "D", "_", "H", "E", "X">>
IdB == <<"0", "x", "2", "a", "b", "c">>
IdC == <<"0", "x", "9", "d", "e", "f">>
IdR == <<"0", "x", "[", " ", "R", "E", "D", "A", "C", "T", "E", "D", "_", "H", "E", "X", ":", ".", ".", ".", "a", "b", "c", " ", "]">>
MatchIds == {IdA, IdB, IdC, IdR, Unknown}
\* the call _parse_calls makes with an id: only the sessions opened by a
\* group marker have the id 'Unknown'
ParsedCall(id) == [id |-> id, type |-> IF id = Unknown THEN GROUP_CALL_TYPE ELSE "Outgoing"]

stable_id(id) ==
    IF StartsWith(id, REDACTED_PREFIX) THEN NegSlice(id, 5, 2) ELSE LastN(id, 3)

\* Mutation of contains_id: an empty list of calls is taken to hold every id.
contains_id_EmptyHolds(id, calls) ==
    calls = <<>> \/ \E k \in 1..Len(calls) : stable_id(calls[k].id) = id

\* any(stable_id(call.id) == id for call in calls)
contains_id(id, calls) == \E k \in 1..Len(calls) : stable_id(calls[k].id) = id

\* Mutation of matches_all: only the first of the other lists is looked at.
matches_all_FirstOnly(id, rs) == Len(rs) = 0 \/ contains_id(id, rs[1])

\* all(contains_id(id, calls) for calls in results)
matches_all(id, rs) == \A j \in 1..Len(rs) : contains_id(id, rs[j])

\* Mutation of matching_ids: the ids of the first list are not filtered.
matching_ids_Unfiltered(rs) == [k \in 1..Len(rs[1]) |-> stable_id(rs[1][k].id)]

\* ids = [...results[0]]; matching_ids = [id for id in ids if matches_all(id, results[1:])]
matching_ids(rs) ==
    LET ids == [k \in 1..Len(rs[1]) |-> stable_id(rs[1][k].id)]
    IN  SelectSeq(ids, LAMBDA id : matches_all(id, Tail(rs)))

\* Mutation of match_call_ids: the filter compares the id itself, not its
\* stable form, with the matching ids.
match_call_ids_RawIdFilter(rs) ==
    IF Len(rs) = 0 THEN Raise("IndexError")
    ELSE LET matching == matching_ids(rs)
         IN  Return([i \in 1..Len(rs) |->
                       SelectSeq(rs[i], LAMBDA call : call.id \in Range(matching))])

\* _match_call_ids(results); results[0] raises on an empty list of lists
match_call_ids(rs) ==
    IF Len(rs) = 0 THEN Raise("IndexError")
    ELSE LET matching == matching_ids(rs)
         IN  Return([i \in 1..Len(rs) |->
                       SelectSeq(rs[i], LAMBDA call : stable_id(call.id) \in Range(matching))])

\* the number of calls in all the lists
RECURSIVE TotalCalls(_)
TotalCalls(rs) == IF Len(rs) = 0 THEN 0 ELSE Len(rs[1]) + TotalCalls(Tail(rs))

\* load_calls assembles the argument one log at a time, and each log's list
\* one call at a time.
InitMatch ==
    /\ results = <<>>
    /\ matched = <<>>
    /\ mpc = "load"
    /\ ParseOff
    /\ CleanOff
    /\ RestOff

\* results = [_load_calls_from_url(url) for url in urls]: the next log
LoadUrl ==
    /\ mpc = "load"
    /\ Len(results) < MaxLists
    /\ results' = Append(results, <<>>)
    /\ UNCHANGED <<matched, mpc, parseVars, cleanVars, restVars>>

\* one more call parsed from the log being loaded
LoadCall ==
    /\ mpc = "load"
    /\ Len(results) > 0
    /\ TotalCalls(results) < MaxCalls
    /\ \E id \in MatchIds :
        results' = [results EXCEPT ![Len(results)] = Append(@, ParsedCall(id))]
    /\ UNCHANGED <<matched, mpc, parseVars, cleanVars, restVars>>

\* return _match_call_ids(results)
MatchCall ==
    /\ mpc = "load"
    /\ LET out == match_call_ids(results) IN
        /\ matched' = out
        /\ mpc' = IF out.exc # "" THEN "raised" ELSE "returned"
    /\ UNCHANGED <<results, parseVars, cleanVars, restVars>>

NextMatch == LoadUrl \/ LoadCall \/ MatchCall

SpecMatch == InitMatch /\ [][NextMatch]_vars

(***************************************************************************)
(* Properties of _match_call_ids.                                          *)
(***************************************************************************)
\* the stable ids of a list of calls
StableIds(calls) == {stable_id(calls[k].id) : k \in 1..Len(calls)}
\* the stable ids that occur in every list
CommonIds(rs) == {id \in StableIds(rs[1]) : \A j \in 1..Len(rs) : id \in StableIds(rs[j])}
\* the calls of a list with a given stable id, in order
WithId(calls, id) == SelectSeq(calls, LAMBDA call : stable_id(call.id) = id)

\* C7: Each output list is the input list restricted, in order, to the
\* sessions whose stable id occurs in every input list; all output lists
\* carry the same set of stable ids.
C7_RetainedIffInEveryList ==
    (mpc = "returned") =>
        /\ Len(matched.val) = Len(results)
        /\ \A i \in 1..Len(results) :
            matched.val[i] = SelectSeq(results[i],
                                LAMBDA call : stable_id(call.id) \in CommonIds(results))
        /\ \A i, j \in 1..Len(results) : StableIds(matched.val[i]) = StableIds(matched.val[j])

\* C7 witness: of two sessions of the first of three lists, one is retained
\* in every list and the other, missing from another list, is dropped.
C7_Witness ==
    /\ mpc = "returned" /\ Len(results) = 3
    /\ Len(results[1]) = 2 /\ Len(matched.val[1]) = 1
    /\ \A i \in 1..3 : matched.val[i] # <<>>

\* C8 (as claimed): with three lists and exactly one stable id common to
\* the three, each output list holds exactly one session, with that id.
C8_ExactlyOnePerList ==
    (mpc = "returned" /\ Len(results) = 3 /\ Cardinality(CommonIds(results)) = 1) =>
        \A i \in 1..3 :
            /\ Len(matched.val[i]) = 1
            /\ stable_id(matched.val[i][1].id) \in CommonIds(results)

\* C8 (amended): with three lists and exactly one stable id common to the
\* three, each output list holds exactly the sessions of its input list that
\* carry that id, in order and at least one; it holds exactly one when the
\* input list holds exactly one session with that id.
C8_AllSessionsOfTheCommonId ==
    (mpc = "returned" /\ Len(results) = 3 /\ Cardinality(CommonIds(results)) = 1) =>
        LET id == CHOOSE x \in CommonIds(results) : TRUE IN
        \A i \in 1..3 :
            /\ matched.val[i] = WithId(results[i], id)
            /\ Len(matched.val[i]) >= 1
            /\ Len(WithId(results[i], id)) = 1 => Len(matched.val[i]) = 1

\* C8 witness: three lists with one common stable id, one of them holding a
\* session of another id besides; each output list holds one session.
C8_Witness ==
    /\ mpc = "returned" /\ Len(results) = 3 /\ Cardinality(CommonIds(results)) = 1
    /\ \E i \in 1..3 : Len(results[i]) = 2 /\ Cardinality(StableIds(results[i])) = 2
    /\ \A i \in 1..3 : Len(matched.val[i]) = 1

\* C9: When one of the input lists is empty, the call returns and every
\* output list is empty.
C9_EmptyListEmptiesAll ==
    (mpc # "load" /\ \E i \in 1..Len(results) : results[i] = <<>>) =>
        /\ mpc = "returned"
        /\ \A j \in 1..Len(results) : matched.val[j] = <<>>

\* C9 witness: the last of three lists is empty, the first is not.
C9_Witness ==
    /\ mpc = "returned" /\ Len(results) = 3
    /\ results[1] # <<>> /\ results[2] # <<>> /\ results[3] = <<>>
    /\ \A j \in 1..3 : matched.val[j] = <<>>

\* the sessions of a list that a group marker opened, in order
GroupCalls(calls) == SelectSeq(calls, LAMBDA call : call.type = GROUP_CALL_TYPE)

\* _parse_calls: a session has the id 'Unknown' exactly when a group marker
\* opened it, while it is open, once emitted and in the result
GroupSessionsKeepUnknown ==
    /\ \A i \in 1..Len(raw_calls) : (raw_calls[i].type = GROUP_CALL_TYPE) <=> (raw_calls[i].id = Unknown)
    /\ Truthy(raw_call) /\ pc = "loop" => ((raw_call.type = GROUP_CALL_TYPE) <=> (raw_call.id = Unknown))
    /\ pc = "returned" =>
          \A i \in 1..Len(result.val) :
              (result.val[i].type = GROUP_CALL_TYPE) <=> (result.val[i].id = Unknown)

\* C30: The sessions opened by a group marker all have the id 'Unknown' and
\* so one stable id; when every input list holds at least one of them, every
\* one of them is retained in every list, in order, whichever calls they are.
C30_GroupSessionsAllRetained ==
    (mpc = "returned") =>
        /\ \A i \in 1..Len(results) : \A k \in 1..Len(results[i]) :
              results[i][k].type = GROUP_CALL_TYPE => stable_id(results[i][k].id) = stable_id(Unknown)
        /\ (\A i \in 1..Len(results) : GroupCalls(results[i]) # <<>>)
              => \A i \in 1..Len(results) : GroupCalls(matched.val[i]) = GroupCalls(results[i])

\* C30 witness: two lists, the first with two group sessions and the second
\* with one, and all three are returned
C30_Witness ==
    /\ mpc = "returned" /\ Len(results) = 2
    /\ Len(GroupCalls(results[1])) = 2 /\ Len(GroupCalls(results[2])) = 1
    /\ Len(results[2]) = 2
    /\ Len(GroupCalls(matched.val[1])) = 2 /\ Len(matched.val[2]) = 1

(***************************************************************************)
(* clean_columns as a state machine: one step per pass through the body of *)
(* the while loop (or per column of numeric_columns that is skipped).  The *)
(* frames carry no 'resolution' column.                                    *)
(***************************************************************************)
HdrJitter == <<"j", "i", "t", "t", "e", "r">>
Cell5ms == <<"5", "m", "s">>
HdrPackets == <<"p", "a", "c", "k", "e", "t", "s", "_", "p", "e", "r", "_", "s", "e", "c", "o", "n", "d">>
Cell50 == <<"5", "0">>

\* the text rows of up to MaxRows rows over a set of row values
TextRows(rowValues) == UNION { [1..n -> rowValues] : n \in 0..MaxRows }

\* the frames read_csv hands to clean_columns
Frames ==
    {EmptyFrame}
    \cup { read_csv(<<HdrBitrate>>, rows) :
            rows \in TextRows({<<c>> : c \in {Cell100, Cell200, HdrBitrate}}) }
    \cup { read_csv(<<HdrBitrate, HdrJitter>>, rows) :
            rows \in TextRows({<<b, j>> : b \in {Cell100, Cell200, HdrBitrate},
                                         j \in {Cell5ms, HdrJitter}}) }
    \cup { read_csv(<<HdrPackets>>, rows) :
            rows \in TextRows({<<c>> : c \in {Cell50, HdrPackets}}) }

InitClean ==
    /\ df0 \in Frames
    /\ df = df0
    /\ col = 1
    /\ drops = 0
    /\ cpc = "clean"
    /\ ParseOff
    /\ MatchOff
    /\ RestOff

\* for (name, suffix) in numeric_columns: ... while True: one pass
CleanStep ==
    /\ cpc = "clean"
    /\ Len(df.columns) > 0
    /\ col <= Len(numeric_columns)
    /\ LET it == CleanIter(df, col) IN
        /\ df' = it.df
        /\ col' = it.col
        /\ drops' = IF it.dropped THEN drops + 1 ELSE drops
    /\ UNCHANGED <<df0, cpc, parseVars, matchVars, restVars>>

\* return df: at once for a frame without columns, else after the last column
CleanReturn ==
    /\ cpc = "clean"
    /\ Len(df.columns) = 0 \/ col > Len(numeric_columns)
    /\ cpc' = "returned"
    /\ UNCHANGED <<df, df0, col, drops, parseVars, matchVars, restVars>>

NextClean == CleanStep \/ CleanReturn

SpecClean == InitClean /\ [][NextClean]_vars

(***************************************************************************)
(* Properties of clean_columns.                                            *)
(***************************************************************************)
\* the row repeats the header: every cell is the name of its column
IsHeaderRow(d, row) == \A j \in 1..Len(d.columns) : row[j] = Str(d.columns[j])
\* the suffix numeric_columns gives to a column name
SuffixOf(name) ==
    numeric_columns[CHOOSE i \in 1..Len(numeric_columns) : numeric_columns[i][1] = name][2]
\* the number a valid cell of a column stands for: its text without the suffix
ValueOf(name, cell) ==
    IF cell.k = "num" THEN cell
    ELSE Num(DecimalValue(SubSeq(cell.s, 1, Len(cell.s) - Len(SuffixOf(name)))))
\* the row is valid: every cell is a number, or a decimal followed by the suffix
IsValidRow(d, row) ==
    \A j \in 1..Len(d.columns) :
        \/ row[j].k = "num"
        \/ /\ row[j].k = "str"
           /\ Len(row[j].s) > Len(SuffixOf(d.columns[j]))
           /\ IsDecimal(SubSeq(row[j].s, 1, Len(row[j].s) - Len(SuffixOf(d.columns[j]))))
           /\ SubSeq(row[j].s, Len(row[j].s) - Len(SuffixOf(d.columns[j])) + 1, Len(row[j].s))
                = SuffixOf(d.columns[j])
\* the valid rows of a frame as numbers, in order
ValidRows(d) ==
    LET valid == SelectSeq(d.rows, LAMBDA row : IsValidRow(d, row))
    IN  [r \in 1..Len(valid) |->
            [j \in 1..Len(d.columns) |-> ValueOf(d.columns[j], valid[r][j])]]
\* exactly one row of the frame repeats the header and every other row is valid
OneHeaderRow(d) ==
    /\ Len(d.columns) > 0
    /\ Cardinality({r \in 1..Len(d.rows) : IsHeaderRow(d, d.rows[r])}) = 1
    /\ \A r \in 1..Len(d.rows) : IsHeaderRow(d, d.rows[r]) \/ IsValidRow(d, d.rows[r])

\* C6: For a frame whose rows hold exactly one duplicated header row among
\* valid values, the cleaned frame holds exactly the valid rows as numbers,
\* in their original order: only the header row is removed.
C6_OnlyHeaderRowRemoved ==
    (cpc = "returned" /\ OneHeaderRow(df0)) => df.rows = ValidRows(df0)

\* the cell converts: a number, NaN, the empty text, or a decimal followed
\* by characters of the suffix
Converts(cell, suffix) == cell.k # "str" \/ to_numeric(rstrip(cell.s, suffix)).exc = ""
\* the columns of numeric_columns in the frame whose conversion fails on
\* some row of the frame
FailingColumns(d) ==
    { i \in 1..Len(numeric_columns) :
        /\ ColumnIndex(d, numeric_columns[i][1]) # 0
        /\ \E r \in 1..Len(d.rows) :
            ~Converts(d.rows[r][ColumnIndex(d, numeric_columns[i][1])], numeric_columns[i][2]) }

\* C19: A conversion failure on a column costs the table at most one row,
\* the offending one: df = df.iloc[1:, :] runs at most once for each failing
\* column, and the cleaned frame lacks at most one row for each of them.
C19_AtMostOneRowPerFailingColumn ==
    cpc = "returned" =>
        /\ drops <= Cardinality(FailingColumns(df0))
        /\ Len(df0.rows) - Len(df.rows) <= Cardinality(FailingColumns(df0))

(***************************************************************************)
(* The methods of Call.  The lines of _logs are sequences of characters    *)
(* here, since logs() folds and searches them; a frame is [columns, rows]  *)
(* as above.  What a method hands to print or to plot is its outcome; the  *)
(* drawing itself is outside the model.                                    *)
(***************************************************************************)
MaxLogs == 3       \* most lines in the _logs of a session

Upper == <<"A", "B", "C", "D", "E", "F", "G", "H", "I", "J", "K", "L", "M",
           "N", "O", "P", "Q", "R", "S", "T", "U", "V", "W", "X", "Y", "Z">>
Lower == <<"a", "b", "c", "d", "e", "f", "g", "h", "i", "j", "k", "l", "m",
           "n", "o", "p", "q", "r", "s", "t", "u", "v", "w", "x", "y", "z">>

\* Mutation of casefold: the text is left as it is.
casefold_Identity(s) == s

\* str.casefold() of an ASCII text: every capital becomes its small letter
casefold(s) ==
    [i \in 1..Len(s) |->
        IF \E k \in 1..Len(Upper) : Upper[k] = s[i]
        THEN Lower[CHOOSE k \in 1..Len(Upper) : Upper[k] = s[i]]
        ELSE s[i]]

\* sub in s
Contains(sub, s) ==
    \E i \in 0..(Len(s) - Len(sub)) : SubSeq(s, i + 1, i + Len(sub)) = sub

\* sep.join(texts)
RECURSIVE join(_, _)
join(sep, texts) ==
    IF Len(texts) = 0 THEN <<>>
    ELSE IF Len(texts) = 1 THEN texts[1]
    ELSE texts[1] \o sep \o join(sep, Tail(texts))

\* print(text): the text and a newline
print(text) == text \o <<"\n">>

\* Call.logs(query)
Call_logs(call, query) ==
    LET matchedLines == SelectSeq(call.logs,
                                  LAMBDA line : Contains(casefold(query), casefold(line)))
    IN  Return(print(join(<<"\n">>, matchedLines)))

HdrSsrc == <<"s", "s", "r", "c">>
\* `ssrc is None`: an optional argument is <<>> (None) or <<value>>
None == <<>>

\* df[df.ssrc == ssrc]: AttributeError when the frame has no attribute ssrc
FilterSsrc(d, ssrc) ==
    LET j == ColumnIndex(d, HdrSsrc) IN
    IF j = 0 THEN Raise("AttributeError")
    ELSE Return([d EXCEPT !.rows = SelectSeq(@, LAMBDA row : row[j] = Num(ssrc))])

\* df[[x for x in list(df.columns.values) if "ssrc" != x]]
WithoutSsrc(d) ==
    LET keep == SelectSeq([j \in 1..Len(d.columns) |-> j], LAMBDA j : d.columns[j] # HdrSsrc)
    IN  [columns |-> [h \in 1..Len(keep) |-> d.columns[keep[h]]],
         rows |-> [r \in 1..Len(d.rows) |-> [h \in 1..Len(keep) |-> d.rows[r][keep[h]]]]]

\* Mutation of Call_describe_audio_recv: the assertion is left out.
Call_describe_audio_recv_NoAssert(call, ssrc) ==
    IF ssrc # None
    THEN LET f == FilterSsrc(call.audio_recv, ssrc[1]) IN
         IF f.exc # "" THEN f ELSE Return(WithoutSsrc(f.val))
    ELSE Return(WithoutSsrc(call.audio_recv))

\* Call.describe_audio_recv(ssrc): the frame handed to plot
Call_describe_audio_recv(call, ssrc) ==
    IF call.type = GROUP_CALL_TYPE /\ ssrc = None THEN Raise("AssertionError")
    ELSE IF ssrc # None
    THEN LET f == FilterSsrc(call.audio_recv, ssrc[1]) IN
         IF f.exc # "" THEN f ELSE Return(WithoutSsrc(f.val))
    ELSE Return(WithoutSsrc(call.audio_recv))

\* Call.describe_video_recv(ssrc): the frame handed to plot
Call_describe_video_recv(call, ssrc) ==
    IF call.type = GROUP_CALL_TYPE /\ ssrc = None THEN Raise("AssertionError")
    ELSE IF ssrc # None
    THEN LET f == FilterSsrc(call.video_recv, ssrc[1]) IN
         IF f.exc # "" THEN f ELSE Return(WithoutSsrc(f.val))
    ELSE Return(WithoutSsrc(call.video_recv))

(***************************************************************************)
(* A method call on a session: the session is any of SessionsUnderCall,    *)
(* the method and its argument are chosen by the step.                     *)
(***************************************************************************)
LogFoo == <<"F", "o", "o", " ", "b", "a", "r">>
LogBAZ == <<"B", "A", "Z">>
LogAgain == <<"f", "o", "o", " ", "a", "g", "a", "i", "n">>
LogTexts == {LogFoo, LogBAZ, LogAgain}
Queries == {<<>>, <<"f", "o", "o">>, <<"F", "O", "O">>, <<"a", "z">>, <<"o", " ">>, <<"x">>}

\* the lists of up to MaxLogs ancillary lines
LogLists == UNION { [1..n -> LogTexts] : n \in 0..MaxLogs }

\* receive tables: none established, a header only, rows of two streams,
\* and a table whose header has no ssrc column
RecvFrames ==
    { EmptyFrame,
      [columns |-> <<HdrSsrc, HdrPackets>>, rows |-> <<>>],
      [columns |-> <<HdrSsrc, HdrPackets>>,
       rows |-> << <<Num(11), Num(50)>>, <<Num(22), Num(50)>>, <<Num(11), Num(60)>> >>],
      [columns |-> <<HdrPackets>>, rows |-> << <<Num(50)>> >>] }

SessionOf(type, lines, audio_recv, video_recv) ==
    [id |-> IdA, type |-> type, logs |-> lines, audio_recv |-> audio_recv,
     video_recv |-> video_recv, start |-> [fmt |-> "android", t |-> 1], end |-> EmptyStr]

SessionsUnderCall ==
    { SessionOf("Outgoing", lines, EmptyFrame, EmptyFrame) : lines \in LogLists }
    \cup { SessionOf(type, <<LogFoo>>, a, v) :
            type \in {"Outgoing", "Unknown", GROUP_CALL_TYPE}, a \in RecvFrames, v \in RecvFrames }

Ssrcs == {None, <<11>>, <<33>>}

InitCall ==
    /\ self \in SessionsUnderCall
    /\ arg = <<>>
    /\ shown = <<>>
    /\ kpc = "idle"
    /\ ParseOff /\ MatchOff /\ CleanOff /\ LateOff /\ DescOff /\ EmosOff /\ LogOff

\* call.logs(query)
CallLogs ==
    /\ kpc = "idle"
    /\ \E query \in Queries :
        /\ arg' = [query |-> query, ssrc |-> None]
        /\ shown' = Call_logs(self, query)
    /\ kpc' = "logs"
    /\ UNCHANGED <<self, parseVars, matchVars, cleanVars, lateVars, descVars, emosVars, logVars>>

\* call.describe_audio_recv(ssrc)
CallDescribeAudioRecv ==
    /\ kpc = "idle"
    /\ \E ssrc \in Ssrcs :
        /\ arg' = [query |-> <<>>, ssrc |-> ssrc]
        /\ shown' = Call_describe_audio_recv(self, ssrc)
    /\ kpc' = "describe_audio_recv"
    /\ UNCHANGED <<self, parseVars, matchVars, cleanVars, lateVars, descVars, emosVars, logVars>>

\* call.describe_video_recv(ssrc)
CallDescribeVideoRecv ==
    /\ kpc = "idle"
    /\ \E ssrc \in Ssrcs :
        /\ arg' = [query |-> <<>>, ssrc |-> ssrc]
        /\ shown' = Call_describe_video_recv(self, ssrc)
    /\ kpc' = "describe_video_recv"
    /\ UNCHANGED <<self, parseVars, matchVars, cleanVars, lateVars, descVars, emosVars, logVars>>

NextCall == CallLogs \/ CallDescribeAudioRecv \/ CallDescribeVideoRecv

SpecCall == InitCall /\ [][NextCall]_vars

(***************************************************************************)
(* Properties of the methods of Call.                                      *)
(***************************************************************************)
\* the two characters are the same letter, whatever their case
SameLetter(a, b) == a = b \/ \E k \in 1..Len(Upper) : {a, b} = {Upper[k], Lower[k]}
\* the line holds the query at some offset, letter for letter
HoldsQuery(line, query) ==
    \E o \in 0..(Len(line) - Len(query)) :
        \A i \in 1..Len(query) : SameLetter(line[o + i], query[i])
\* the lines as print shows them: one after the other, a newline between and after
Shown(lines) == print(join(<<"\n">>, lines))

\* C11: logs(query) shows exactly the retained lines that hold the query as
\* a substring whatever the case of the letters, in their order and with
\* their own text; ['Foo bar', 'BAZ', 'foo again'] with 'foo' gives
\* ['Foo bar', 'foo again']; the empty query shows every line.
C11_LogsSelectsCaseInsensitive ==
    kpc = "logs" =>
        /\ shown = Return(Shown(SelectSeq(self.logs, LAMBDA line : HoldsQuery(line, arg.query))))
        /\ (self.logs = <<LogFoo, LogBAZ, LogAgain>> /\ arg.query = <<"f", "o", "o">>)
            => shown.val = Shown(<<LogFoo, LogAgain>>)
        /\ arg.query = <<>> => shown.val = Shown(self.logs)

\* C11 witness: the lines of the example were searched for 'foo' and the
\* line in capitals was left out.
C11_Witness ==
    /\ kpc = "logs"
    /\ self.logs = <<LogFoo, LogBAZ, LogAgain>> /\ arg.query = <<"f", "o", "o">>
    /\ shown.val = Shown(<<LogFoo, LogAgain>>)

\* C12: describe_audio_recv and describe_video_recv on a session of type
\* 'Group' without an ssrc raise AssertionError whatever the table holds;
\* on a session of another type without an ssrc they raise nothing and plot
\* every row of the table.
C12_GroupNeedsSsrc ==
    kpc \in {"describe_audio_recv", "describe_video_recv"} =>
        LET d == IF kpc = "describe_audio_recv" THEN self.audio_recv ELSE self.video_recv IN
        /\ (self.type = GROUP_CALL_TYPE /\ arg.ssrc = None) => shown = Raise("AssertionError")
        /\ (self.type # GROUP_CALL_TYPE /\ arg.ssrc = None) =>
            /\ shown.exc = ""
            /\ Len(shown.val.rows) = Len(d.rows)
            /\ \A r \in 1..Len(d.rows) : \A j \in 1..Len(d.columns) :
                d.columns[j] # HdrSsrc => \E h \in 1..Len(shown.val.columns) :
                    shown.val.columns[h] = d.columns[j] /\ shown.val.rows[r][h] = d.rows[r][j]
        /\ (self.type = GROUP_CALL_TYPE /\ arg.ssrc # None) => shown # Raise("AssertionError")

\* C12 witness: describe_audio_recv without an ssrc failed on a group session
\* whose table has rows.
C12_Witness ==
    /\ kpc = "describe_audio_recv" /\ self.type = GROUP_CALL_TYPE /\ arg.ssrc = None
    /\ Len(self.audio_recv.rows) = 3
    /\ shown = Raise("AssertionError")

(***************************************************************************)
(* describe(calls).                                                        *)
(***************************************************************************)
MaxDescribed == 3  \* most sessions handed to describe

\* Mutation of ssrc_count: the rows are counted, not the distinct values.
ssrc_count_Rows(call) ==
    IF ColumnIndex(call.audio_recv, HdrSsrc) = 0 THEN None
    ELSE <<Len(call.audio_recv.rows)>>

\* ssrc_count: None when the table has no 'ssrc' column, else
\* call.audio_recv.ssrc.unique().size if not call.audio_recv.empty else 0
ssrc_count(call) ==
    LET j == ColumnIndex(call.audio_recv, HdrSsrc) IN
    IF j = 0 THEN None
    ELSE IF Len(call.audio_recv.rows) # 0
         THEN <<Cardinality(Range(Column(call.audio_recv, j)))>>
         ELSE <<0>>

\* describe: the rows of the frame, columns id, type, start, end, other_participants
describe(cs) ==
    [r \in 1..Len(cs) |-> <<cs[r].id, cs[r].type, cs[r].start, cs[r].end, ssrc_count(cs[r])>>]

\* the sessions handed to describe: one session, and the sessions that
\* differ from it in one attribute or in the audio-receive table
DescribedBase == SessionOf("Outgoing", <<>>, EmptyFrame, EmptyFrame)
DescribedSessions ==
    { DescribedBase,
      [DescribedBase EXCEPT !.id = IdB],
      [DescribedBase EXCEPT !.type = GROUP_CALL_TYPE],
      [DescribedBase EXCEPT !.start = [fmt |-> "android", t |-> 2]],
      [DescribedBase EXCEPT !.end = [fmt |-> "android", t |-> 2]] }
    \cup { [DescribedBase EXCEPT !.audio_recv = a] : a \in RecvFrames }
    \cup { [DescribedBase EXCEPT !.audio_recv =
                [columns |-> <<HdrSsrc>>, rows |-> << <<Num(11)>>, <<NaN>>, <<NaN>> >>]] }

InitDescribe ==
    /\ desc_calls = <<>>
    /\ table = <<>>
    /\ dpc = "build"
    /\ ParseOff /\ MatchOff /\ CleanOff /\ LateOff /\ CallOff /\ EmosOff /\ LogOff

\* the caller puts one more session on the list
DescribeArgument ==
    /\ dpc = "build"
    /\ Len(desc_calls) < MaxDescribed
    /\ \E call \in DescribedSessions : desc_calls' = Append(desc_calls, call)
    /\ UNCHANGED <<table, dpc, parseVars, matchVars, cleanVars, lateVars, callVars, emosVars, logVars>>

\* describe(calls)
Describe ==
    /\ dpc = "build"
    /\ table' = describe(desc_calls)
    /\ dpc' = "returned"
    /\ UNCHANGED <<desc_calls, parseVars, matchVars, cleanVars, lateVars, callVars, emosVars, logVars>>

NextDescribe == DescribeArgument \/ Describe

SpecDescribe == InitDescribe /\ [][NextDescribe]_vars

\* the values that occur in the 'ssrc' column of a table that has one
DistinctSsrcs(d) ==
    { v \in {NaN} \cup { Num(n) : n \in 0..99 } :
        \E r \in 1..Len(d.rows) : d.rows[r][ColumnIndex(d, HdrSsrc)] = v }

\* C13: describe returns one row per session, in the order of the list, with
\* the session's id, type, start and end, and as participant count the number
\* of distinct values of the 'ssrc' column of its audio-receive table, None
\* when the table has no such column.
C13_DescribeOneRowPerSession ==
    dpc = "returned" =>
        /\ Len(table) = Len(desc_calls)
        /\ \A k \in 1..Len(desc_calls) :
            LET call == desc_calls[k] IN
            /\ table[k][1] = call.id /\ table[k][2] = call.type
            /\ table[k][3] = call.start /\ table[k][4] = call.end
            /\ table[k][5] = IF \E j \in 1..Len(call.audio_recv.columns) :
                                    call.audio_recv.columns[j] = HdrSsrc
                             THEN <<Cardinality(DistinctSsrcs(call.audio_recv))>>
                             ELSE None

\* C13 witness: a frame of two rows, the first of a session with three
\* samples of two streams, the second of a session without an 'ssrc' column.
C13_Witness ==
    /\ dpc = "returned" /\ Len(table) = 2
    /\ Len(desc_calls[1].audio_recv.rows) = 3 /\ table[1][5] = <<2>>
    /\ table[2][5] = None /\ table[1][1] # table[2][1]

(***************************************************************************)
(* compute_emos.  The code computes in binary floating point; the model    *)
(* computes the same expressions exactly, in fixed point: rFactor in       *)
(* thousandths, fractionLost in tenths, the score in units of 10^-15.  A   *)
(* score is [neg, mag], mag a number of five digits to the base 10000,     *)
(* the lowest first.                                                       *)
(***************************************************************************)
MaxRttTens == 100  \* rtt runs over 0, 10, ..., 10 * MaxRttTens milliseconds

r0 == 94768

\* the digits of a natural number below 2^31
Digits(n) == <<n % 10000, (n \div 10000) % 10000, n \div 100000000, 0, 0>>

\* x * k from digit i on, k below 2 * 10^5
RECURSIVE MulFrom(_, _, _, _)
MulFrom(x, k, i, carry) ==
    IF i > Len(x) THEN <<>>
    ELSE LET v == x[i] * k + carry IN <<v % 10000>> \o MulFrom(x, k, i + 1, v \div 10000)
Times(x, k) == MulFrom(x, k, 1, 0)

\* x + y from digit i on
RECURSIVE AddFrom(_, _, _, _)
AddFrom(x, y, i, carry) ==
    IF i > Len(x) THEN <<>>
    ELSE LET v == x[i] + y[i] + carry IN <<v % 10000>> \o AddFrom(x, y, i + 1, v \div 10000)
Plus(x, y) == AddFrom(x, y, 1, 0)

\* x - y from digit i on, for x >= y
RECURSIVE SubFrom(_, _, _, _)
SubFrom(x, y, i, borrow) ==
    IF i > Len(x) THEN <<>>
    ELSE LET v == x[i] - y[i] - borrow IN
         IF v < 0 THEN <<v + 10000>> \o SubFrom(x, y, i + 1, 1)
         ELSE <<v>> \o SubFrom(x, y, i + 1, 0)
Minus(x, y) == SubFrom(x, y, 1, 0)

\* x < y
Below(x, y) == \E i \in 1..Len(x) : x[i] < y[i] /\ \A j \in (i + 1)..Len(x) : x[j] = y[j]

\* the score 1.0
One == [neg |-> FALSE, mag |-> <<0, 0, 0, 1000, 0>>]

\* Mutation of LatencyFactor: the slope of the first branch on both.
LatencyFactor_OneSlope(r, j) ==
    LET effectiveLatency == r + (j * 2) + 10 IN
    IF effectiveLatency < 1000 THEN r0 - 25 * effectiveLatency ELSE 0

\* lines 14-20: rFactor from the effective latency
\* (x / 40 is 25 thousandths of x, x / 10 is 100 thousandths of x)
LatencyFactor(r, j) ==
    LET effectiveLatency == r + (j * 2) + 10 IN
    IF effectiveLatency < 160 THEN r0 - 25 * effectiveLatency
    ELSE IF effectiveLatency < 1000 THEN r0 - 100 * (effectiveLatency - 120)
    ELSE 0

\* Mutation of LossFactor: max(..., 6.52) is left out.
LossFactor_NoFloor(f, lost) == IF 250 * lost <= f THEN f - 250 * lost ELSE 0

\* lines 22-26: fractionLost <= rFactor / 2.5, rFactor - fractionLost * 2.5
\* (a tenth times 2.5 is 250 thousandths)
LossFactor(f, lost) ==
    IF 250 * lost <= f THEN Max2(f - 250 * lost, 6520) ELSE 0

\* line 29: 1 + (0.035 * rFactor) + (0.000007 * rFactor) * (rFactor - 60) * (100 - rFactor)
\* for 0 <= rFactor <= 100
Score(f) ==
    LET linear == Times(Times(Times(Digits(35 * f), 10000), 10000), 10)
        cubic == Times(Times(Digits(7 * f), IF f >= 60000 THEN f - 60000 ELSE 60000 - f),
                       100000 - f)
        base == Plus(One.mag, linear)
    IN  IF f >= 60000 THEN [neg |-> FALSE, mag |-> Plus(base, cubic)]
        ELSE IF Below(base, cubic) THEN [neg |-> TRUE, mag |-> Minus(cubic, base)]
        ELSE [neg |-> FALSE, mag |-> Minus(base, cubic)]

compute_emos(r, j, lost) == Score(LossFactor(LatencyFactor(r, j), lost))

\* the arguments: rtt and jitter in milliseconds, fractionLost in tenths
Rtts == { 10 * k : k \in 0..MaxRttTens }
Jitters == {0, 25, 100}
Losses == {0, 5, 10, 20, 50, 100, 143, 144, 200, 380, 500, 1000}

InitEmos ==
    /\ rtt \in Rtts
    /\ jitter \in Jitters
    /\ fractionLost \in Losses
    /\ rFactor = 0
    /\ mos = <<>>
    /\ epc = "call"
    /\ ParseOff /\ MatchOff /\ CleanOff /\ LateOff /\ CallOff /\ DescOff /\ LogOff

\* lines 14-20
EmosLatency ==
    /\ epc = "call"
    /\ rFactor' = LatencyFactor(rtt, jitter)
    /\ epc' = "latency"
    /\ UNCHANGED <<rtt, jitter, fractionLost, mos, parseVars, matchVars, cleanVars, lateVars, callVars, descVars, logVars>>

\* lines 22-26
EmosLoss ==
    /\ epc = "latency"
    /\ rFactor' = LossFactor(rFactor, fractionLost)
    /\ epc' = "loss"
    /\ UNCHANGED <<rtt, jitter, fractionLost, mos, parseVars, matchVars, cleanVars, lateVars, callVars, descVars, logVars>>

\* lines 29-31
EmosReturn ==
    /\ epc = "loss"
    /\ mos' = Score(rFactor)
    /\ epc' = "returned"
    /\ UNCHANGED <<rtt, jitter, fractionLost, rFactor, parseVars, matchVars, cleanVars, lateVars, callVars, descVars, logVars>>

NextEmos == EmosLatency \/ EmosLoss \/ EmosReturn

SpecEmos == InitEmos /\ [][NextEmos]_vars

(***************************************************************************)
(* Properties of compute_emos.                                             *)
(***************************************************************************)
\* the score 4.5
FourAndHalf == <<0, 0, 0, 4500, 0>>
\* 1 <= score < 4.5
InRange(score) == ~score.neg /\ ~Below(score.mag, One.mag) /\ Below(score.mag, FourAndHalf)

\* C15: For rtt and jitter >= 0 and fractionLost in 0..100 the returned
\* score is in [1, 4.5); whenever fractionLost exceeds rFactor / 2.5 (the
\* rFactor of the latency) rFactor becomes 0 and the score is exactly 1.
C15_ScoreInRange ==
    /\ epc = "returned" =>
        /\ InRange(mos)
        /\ mos = compute_emos(rtt, jitter, fractionLost)
        /\ (250 * fractionLost > LatencyFactor(rtt, jitter)) => (rFactor = 0 /\ mos = One)
    /\ (epc = "loss" /\ 250 * fractionLost > LatencyFactor(rtt, jitter)) => rFactor = 0

\* C15 witness: a call returned exactly 1 because the loss exceeded
\* rFactor / 2.5 for a latency below 1000 ms.
C15_Witness ==
    /\ epc = "returned" /\ LatencyFactor(rtt, jitter) > 0
    /\ 250 * fractionLost > LatencyFactor(rtt, jitter)
    /\ mos = One

\* C16 as stated: compute_emos(500, 100, 0.5) has its rFactor clamped to 0,
\* the loss exceeding rFactor / 2.5, and returns a score at or near the
\* floor (below 1.1).
C16_HalfLossGivesFloor ==
    (epc = "returned" /\ rtt = 500 /\ jitter = 100 /\ fractionLost = 5)
        => /\ 250 * fractionLost > LatencyFactor(rtt, jitter)
           /\ rFactor = 0
           /\ ~mos.neg /\ Below(mos.mag, <<0, 0, 0, 1100, 0>>)

\* C16 as the code has it: for rtt = 500 and jitter = 100 the latency gives
\* rFactor 35.768, so a loss of 0.5 does not exceed rFactor / 2.5 = 14.3072:
\* rFactor becomes 34.518 and the score 1.804949878601176; rFactor is clamped
\* to 0, and the score is 1, exactly for the losses above 14.3072.
C16_HalfLossKeepsFactor ==
    (epc = "returned" /\ rtt = 500 /\ jitter = 100) =>
        /\ fractionLost = 5 =>
            /\ rFactor = 34518
            /\ mos = [neg |-> FALSE, mag |-> <<1176, 7860, 9498, 1804, 0>>]
        /\ (rFactor = 0 /\ mos = One) <=> fractionLost > 143
        /\ fractionLost <= 143 => Below(One.mag, mos.mag)

\* C16 witness: compute_emos(500, 100, 0.5) has returned.
C16_Witness ==
    /\ epc = "returned" /\ rtt = 500 /\ jitter = 100 /\ fractionLost = 5
    /\ rFactor = 34518

(***************************************************************************)
(* bin/parse_log.py: parse_events, the receive-stats part of the loop over *)
(* the events, and print_stats.  A line is the record of the patterns that *)
(* match it and of the groups they capture; times are in milliseconds; a   *)
(* dict is the sequence of its items in insertion order.  Of the output    *)
(* only the sample lines of print_audio_stats and print_video_stats are    *)
(* kept.                                                                   *)
(***************************************************************************)
\* the list of recognizers of parse_events, by the class of their event
Parsers ==
    <<"OutgoingCall", "IncomingCall", "CallStart", "CallState", "Connection",
      "LocalIceCandidate", "RemoteIceCandidate", "IceConnected", "NetworkRouteChange",
      "SendRateChange", "AudioReceiveStats", "VideoReceiveStats", "LocalHangup",
      "ReceivedHangup", "CallEnded">>

LogLine(matches, time, ssrc, bytes_received) ==
    [matches |-> matches, time |-> time, ssrc |-> ssrc, bytes_received |-> bytes_received,
     packets_received |-> 10, packets_lost |-> 0]

\* parse_outgoing_call ... parse_call_end: the event when the pattern of the
\* class matches the line, None otherwise
parse(class, line) ==
    IF class \in line.matches
    THEN <<[class |-> class, time |-> line.time, ssrc |-> line.ssrc,
            bytes_received |-> line.bytes_received,
            packets_received |-> line.packets_received, packets_lost |-> line.packets_lost]>>
    ELSE None

\* parse_events on one line: every recognizer of the list is tried, in
\* order, and each event that is not None is yielded
parse_events(line) ==
    LET yielding == SelectSeq(Parsers, LAMBDA class : parse(class, line) # None)
    IN  [i \in 1..Len(yielding) |-> parse(yielding[i], line)[1]]

\* int(x / y) for y > 0: the quotient cut towards zero
Truncated(x, y) == IF x >= 0 THEN x \div y ELSE -((-x) \div y)

\* DataSize.from_bytes(bytes) / duration: bits per second, ZeroDivisionError
\* when the duration is 0.0
DataSize_truediv(bytes, ms) ==
    IF ms = 0 THEN Raise("ZeroDivisionError")
    ELSE IF ms > 0 THEN Return(Truncated(bytes * 8 * 1000, ms))
    ELSE Return(-Truncated(bytes * 8 * 1000, -ms))

\* what the body of `for sample in stats` prints for stats[i]; kbps is "?"
\* (not known) or the rate in bits per second, shown divided by 1000.0; the
\* time and bytes_received of the sample are kept with the line as history
SampleLine(media, ssrc, stats, i) ==
    LET sample == stats[i]
        loss_percent ==
            IF sample.packets_received > 0
            THEN <<Truncated(sample.packets_lost * 100,
                             sample.packets_received + sample.packets_lost)>>
            ELSE None
        rate == IF i > 1
                THEN DataSize_truediv(sample.bytes_received - stats[i - 1].bytes_received,
                                      sample.time - stats[i - 1].time)
                ELSE Return(0)
    IN  IF rate.exc # "" THEN rate
        ELSE Return([media |-> media, ssrc |-> ssrc, time |-> sample.time,
                     bytes_received |-> sample.bytes_received, loss_percent |-> loss_percent,
                     kbps |-> [known |-> i > 1, bps |-> rate.val]])

\* the outcome of printing: the lines printed, and the exception that ended it
Printing(lines, exc) == [lines |-> lines, exc |-> exc]

\* one print after another: an exception in the first ends the printing
PrintingThen(first, second) ==
    IF first.exc # "" THEN first
    ELSE Printing(first.lines \o second.lines, second.exc)

\* the line of one sample as a printing: one line, or the exception
PrintedSample(l) ==
    IF l.exc # "" THEN Printing(<<>>, l.exc) ELSE Printing(<<l.val>>, "")

\* for sample in stats: the lines of the samples before the first one whose
\* line raises, and its exception
PrintSamples(media, ssrc, stats) ==
    LET upTo[i \in 0..Len(stats)] ==
            IF i = 0 THEN Printing(<<>>, "")
            ELSE PrintingThen(upTo[i - 1], PrintedSample(SampleLine(media, ssrc, stats, i)))
    IN  upTo[Len(stats)]

\* for (ssrc, stats) in stats_by_ssrc.items(): the series are printed one
\* after the other, up to the first that raises
PrintSeries(media, stats_by_ssrc) ==
    LET upTo[i \in 0..Len(stats_by_ssrc)] ==
            IF i = 0 THEN Printing(<<>>, "")
            ELSE PrintingThen(upTo[i - 1],
                              PrintSamples(media, stats_by_ssrc[i].ssrc, stats_by_ssrc[i].stats))
    IN  upTo[Len(stats_by_ssrc)]

print_audio_stats(stats_by_ssrc) == PrintSeries("audio", stats_by_ssrc)
print_video_stats(stats_by_ssrc) == PrintSeries("video", stats_by_ssrc)

\* print_stats: each dict is printed when it is not empty
print_stats(audio, video) ==
    PrintingThen(IF Len(audio) > 0 THEN print_audio_stats(audio) ELSE Printing(<<>>, ""),
                 IF Len(video) > 0 THEN print_video_stats(video) ELSE Printing(<<>>, ""))

\* stats_by_ssrc.setdefault(event.ssrc, []).append(event)
setdefault_append(stats_by_ssrc, event) ==
    IF \E i \in 1..Len(stats_by_ssrc) : stats_by_ssrc[i].ssrc = event.ssrc
    THEN [i \in 1..Len(stats_by_ssrc) |->
            IF stats_by_ssrc[i].ssrc = event.ssrc
            THEN [stats_by_ssrc[i] EXCEPT !.stats = Append(@, event)]
            ELSE stats_by_ssrc[i]]
    ELSE Append(stats_by_ssrc, [ssrc |-> event.ssrc, stats |-> <<event>>])

\* the state of the loop over the events: the two dicts, the lines printed
\* and the exception raised ("" when none)
Stats(audio, video, lines, exc) == [audio |-> audio, video |-> video, lines |-> lines, exc |-> exc]

\* the CallEnded branch once print_stats has run: the dicts are emptied
\* unless it raised
AfterPrintStats(st, p) ==
    IF p.exc # "" THEN Stats(st.audio, st.video, st.lines \o p.lines, p.exc)
    ELSE Stats(<<>>, <<>>, st.lines \o p.lines, "")

\* the body of `for event in parse_events(...)` for one event: the branches
\* that read or write the receive stats
OnEvent(st, event) ==
    IF event.class = "AudioReceiveStats"
    THEN Stats(setdefault_append(st.audio, event), st.video, st.lines, "")
    ELSE IF event.class = "VideoReceiveStats"
    THEN Stats(st.audio, setdefault_append(st.video, event), st.lines, "")
    ELSE IF event.class = "CallEnded"
    THEN AfterPrintStats(st, print_stats(st.audio, st.video))
    ELSE st

\* one turn of the loop: the generator yields the event and the body takes
\* it, unless an exception has ended the loop
TakeEvent(loop, event) ==
    IF loop.st.exc # "" THEN loop
    ELSE [st |-> OnEvent(loop.st, event), yielded |-> loop.yielded + 1]

\* the events of one line go through the body one after the other; an
\* exception ends the loop, and the generator yields no further event
OnEvents(st, evs) ==
    LET after[i \in 0..Len(evs)] ==
            IF i = 0 THEN [st |-> st, yielded |-> 0]
            ELSE TakeEvent(after[i - 1], evs[i])
    IN  after[Len(evs)]

\* the lines of the file: receive-stats samples of two audio streams and one
\* video stream (the byte counters grow with the time), the three markers of
\* the start of a call, the end of a call, a hangup, lines that two patterns
\* match, and a line that none matches
LogTimes == { 300 * k : k \in 1..MaxTs }
LogLines ==
    { LogLine({"AudioReceiveStats"}, t, ssrc, t + 75 * ssrc) : t \in LogTimes, ssrc \in {1, 2} }
    \cup { LogLine({"VideoReceiveStats"}, t, 1, 2 * t) : t \in LogTimes }
    \cup { LogLine({class}, 300, 0, 0) : class \in {"OutgoingCall", "IncomingCall", "CallStart"} }
    \cup { LogLine({"CallEnded"}, 300, 0, 0),
           LogLine({"LocalHangup"}, 300, 0, 0),
           LogLine({"LocalHangup", "CallEnded"}, 300, 0, 0),
           LogLine({"CallState", "IceConnected"}, 300, 0, 0),
           LogLine({}, 300, 0, 0) }

InitLog ==
    /\ lread = 0
    /\ events = <<>>
    /\ audio_receive_stats_by_ssrc = <<>>
    /\ video_receive_stats_by_ssrc = <<>>
    /\ printed = <<>>
    /\ lpc = "loop"
    /\ ParseOff /\ MatchOff /\ CleanOff /\ LateOff /\ CallOff /\ DescOff /\ EmosOff

\* one line of the file: parse_events yields its events, the loop takes them
ReadLogLine ==
    /\ lpc = "loop"
    /\ lread < MaxLines
    /\ \E l \in LogLines :
        \E after \in {OnEvents(Stats(audio_receive_stats_by_ssrc, video_receive_stats_by_ssrc,
                                     printed, ""),
                               parse_events(l))} :
            /\ lread' = lread + 1
            /\ events' = events \o [i \in 1..after.yielded |->
                                      [line |-> lread + 1, matches |-> l.matches,
                                       event |-> parse_events(l)[i]]]
            /\ audio_receive_stats_by_ssrc' = after.st.audio
            /\ video_receive_stats_by_ssrc' = after.st.video
            /\ printed' = after.st.lines
            /\ lpc' = IF after.st.exc # "" THEN "raised" ELSE "loop"
    /\ UNCHANGED <<parseVars, matchVars, cleanVars, lateVars, callVars, descVars, emosVars>>

\* the file is read: print_stats "just in case the call didn't end in the log"
LogEnd ==
    /\ lpc = "loop"
    /\ \E p \in {print_stats(audio_receive_stats_by_ssrc, video_receive_stats_by_ssrc)} :
        /\ printed' = printed \o p.lines
        /\ lpc' = IF p.exc # "" THEN "raised" ELSE "done"
    /\ UNCHANGED <<lread, events, audio_receive_stats_by_ssrc, video_receive_stats_by_ssrc,
                   parseVars, matchVars, cleanVars, lateVars, callVars, descVars, emosVars>>

NextLog == ReadLogLine \/ LogEnd

SpecLog == InitLog /\ [][NextLog]_vars

(***************************************************************************)
(* Properties of parse_log.py.                                             *)
(***************************************************************************)
\* the samples of one stream among the events, in the order they were yielded
StreamSamples(class, ssrc) ==
    SelectSeq(events, LAMBDA y : y.event.class = class /\ y.event.ssrc = ssrc)
\* the timestamps of every stream never go back
StreamsNonDecreasing ==
    \A class \in {"AudioReceiveStats", "VideoReceiveStats"} : \A ssrc \in {1, 2} :
        LET ss == StreamSamples(class, ssrc) IN
        \A i \in 1..(Len(ss) - 1) : ss[i].event.time <= ss[i + 1].event.time
\* no end of a call was yielded
NoCallEnded == \A i \in 1..Len(events) : events[i].event.class # "CallEnded"
\* the lines printed for one stream
StreamLines(media, ssrc) == SelectSeq(printed, LAMBDA l : l.media = media /\ l.ssrc = ssrc)

\* the throughput half of C17: of the lines printed for a stream the first
\* shows "?", and every later one the rate 8 * (bytes[i] - bytes[i-1]) /
\* (time[i] - time[i-1]) against the line before it of the same stream (cut
\* to whole bits per second), when the time has advanced
ThroughputAgainstPrevious ==
    (lpc = "done" /\ NoCallEnded) =>
        \A media \in {"audio", "video"} : \A ssrc \in {1, 2} :
            LET ls == StreamLines(media, ssrc)
                ss == StreamSamples(IF media = "audio" THEN "AudioReceiveStats"
                                    ELSE "VideoReceiveStats", ssrc)
            IN  /\ Len(ls) = Len(ss)
                /\ \A i \in 1..Len(ls) :
                    /\ ls[i].time = ss[i].event.time
                    /\ ls[i].bytes_received = ss[i].event.bytes_received
                    /\ ls[i].kbps.known <=> i > 1
                    /\ (i > 1 /\ ls[i].time > ls[i - 1].time) =>
                        /\ ls[i].kbps.bps * (ls[i].time - ls[i - 1].time)
                            <= 8000 * (ls[i].bytes_received - ls[i - 1].bytes_received)
                        /\ (ls[i].kbps.bps + 1) * (ls[i].time - ls[i - 1].time)
                            > 8000 * (ls[i].bytes_received - ls[i - 1].bytes_received)

\* C17: The first sample of every stream is printed with the throughput
\* "?", every later one with the rate against the sample before it of the
\* same stream, and nothing is raised when the timestamps of every stream
\* never go back.
C17_ThroughputNeverRaises ==
    /\ ThroughputAgainstPrevious
    /\ StreamsNonDecreasing => lpc # "raised"

\* C18: parse_events yields at most one event for a line, that of the first
\* recognizer of the list that matches it.
C18_FirstMatchWins ==
    \A i \in 1..Len(events) :
        /\ \A j \in 1..Len(events) : events[j].line = events[i].line => j = i
        /\ \E k \in 1..Len(Parsers) :
            /\ Parsers[k] = events[i].event.class
            /\ Parsers[k] \in events[i].matches
            /\ \A h \in 1..(k - 1) : Parsers[h] \notin events[i].matches

\* the events that mark the start of a call, and the receive-stats samples
StartClasses == {"OutgoingCall", "IncomingCall", "CallStart"}
SampleClasses == {"AudioReceiveStats", "VideoReceiveStats"}
\* the place in the events of the last one of the classes, 0 when there is none
LastOf(evs, classes) ==
    IF \E k \in 1..Len(evs) : evs[k].event.class \in classes
    THEN CHOOSE k \in 1..Len(evs) :
            /\ evs[k].event.class \in classes
            /\ \A h \in (k + 1)..Len(evs) : evs[h].event.class \notin classes
    ELSE 0
\* how many samples the events hold after place k
SamplesAfter(evs, k) ==
    Cardinality({h \in (k + 1)..Len(evs) : evs[h].event.class \in SampleClasses})
\* the step reads a line that yields CallEnded
ReadsCallEnded ==
    /\ lread' = lread + 1
    /\ \E k \in (Len(events) + 1)..Len(events') : events'[k].event.class = "CallEnded"

\* C23: The samples reported at a CallEnded are samples observed since the
\* start marker of that call: a start marker read with no CallEnded before it
\* closes what the previous call gathered, so no more sample lines are
\* printed than samples were read after the last start marker.
C23_ReportedSamplesAreOfTheCall ==
    [][ ReadsCallEnded =>
            Len(printed') - Len(printed) <= SamplesAfter(events', LastOf(events', StartClasses)) ]_vars

\* what holds of the code instead: the samples reported at a CallEnded are
\* those read since the CallEnded before it (or since the beginning of the
\* file), whatever start markers lie between
ReportedSamplesSinceLastEnd ==
    [][ ReadsCallEnded =>
            /\ Len(printed') - Len(printed) <= SamplesAfter(events, LastOf(events, {"CallEnded"}))
            /\ lpc' = "loop" =>
                  Len(printed') - Len(printed) = SamplesAfter(events, LastOf(events, {"CallEnded"})) ]_vars

(***************************************************************************)
(* extract_timestamp on the characters of the line.  A grammar is the      *)
(* regular expression of the code as the sequence of its items: "\\d+",    *)
(* "\\w+" or one literal character.  Every "+" of the three expressions    *)
(* is followed by a character outside its class or ends the expression, so *)
(* the greedy match of an item is the whole run and never backtracks.      *)
(***************************************************************************)
MaxParts == 2      \* a line is made of at most MaxParts pieces

\* r'\d+-\d+-\d+ \d+:\d+:\d+\.\d+ \w+'
AndroidGrammar ==
    <<"\\d+", "-", "\\d+", "-", "\\d+", " ", "\\d+", ":", "\\d+", ":", "\\d+", ".", "\\d+", " ", "\\w+">>
\* r'\d+-\d+-\d+T\d+:\d+:\d+\.\d+Z'
DesktopGrammar ==
    <<"\\d+", "-", "\\d+", "-", "\\d+", "T", "\\d+", ":", "\\d+", ":", "\\d+", ".", "\\d+", "Z">>
\* r'\d+/\d+/\d+ \d+:\d+:\d+\:\d+'
IosGrammar ==
    <<"\\d+", "/", "\\d+", "/", "\\d+", " ", "\\d+", ":", "\\d+", ":", "\\d+", ":", "\\d+">>

IsDigit(c) == c \in DOMAIN Digit
IsWord(c) == IsDigit(c) \/ c = "_" \/ c \in Range(Upper) \/ c \in Range(Lower)
InClass(item, c) == IF item = "\\d+" THEN IsDigit(c) ELSE IsWord(c)

\* where the run of characters of the class of `item` that starts at s[i] ends
\* (the position after it)
RunEnd(s, i, item) ==
    CHOOSE p \in (i + 1)..(Len(s) + 1) :
        /\ \A q \in i..(p - 1) : InClass(item, s[q])
        /\ p = Len(s) + 1 \/ ~InClass(item, s[p])

\* the match of the items k.. of a grammar at s[i]: the position after the
\* match, 0 when there is none
RECURSIVE MatchEnd(_, _, _, _)
MatchEnd(s, i, grammar, k) ==
    IF k > Len(grammar) THEN i
    ELSE IF i > Len(s) THEN 0
    ELSE IF grammar[k] \in {"\\d+", "\\w+"}
    THEN (IF InClass(grammar[k], s[i]) THEN MatchEnd(s, RunEnd(s, i, grammar[k]), grammar, k + 1) ELSE 0)
    ELSE IF s[i] = grammar[k] THEN MatchEnd(s, i + 1, grammar, k + 1)
    ELSE 0

\* Mutation of findall: the scan goes on from the character after the start
\* of a match, so that matches overlap and the last one comes first.
RECURSIVE findall_LastFirst(_, _, _)
findall_LastFirst(grammar, s, from) ==
    IF from > Len(s) THEN <<>>
    ELSE IF MatchEnd(s, from, grammar, 1) = 0 THEN findall_LastFirst(grammar, s, from + 1)
    ELSE findall_LastFirst(grammar, s, from + 1)
            \o <<SubSeq(s, from, MatchEnd(s, from, grammar, 1) - 1)>>

\* re.findall(grammar, s), scanning from s[from]: the matches from left to
\* right, none overlapping another
RECURSIVE findall(_, _, _)
findall(grammar, s, from) ==
    IF from > Len(s) THEN <<>>
    ELSE IF MatchEnd(s, from, grammar, 1) = 0 THEN findall(grammar, s, from + 1)
    ELSE <<SubSeq(s, from, MatchEnd(s, from, grammar, 1) - 1)>>
            \o findall(grammar, s, MatchEnd(s, from, grammar, 1))

\* what extract_timestamp returns: the text, and by which grammar ("line":
\* none, the line itself)
Stamped(fmt, s) == [fmt |-> fmt, s |-> s]

\* the three findall in the order of the code, each result tested before the
\* next grammar is tried
FirstOf(android, desktop, ios, line) ==
    IF Len(android) > 0 THEN Stamped("android", android[1])
    ELSE IF Len(desktop) > 0 THEN Stamped("desktop", desktop[1])
    ELSE IF Len(ios) > 0 THEN Stamped("ios", ios[1])
    ELSE Stamped("line", line)

extract_timestamp_text(line) ==
    FirstOf(findall(AndroidGrammar, line, 1), findall(DesktopGrammar, line, 1),
            findall(IosGrammar, line, 1), line)

SegAndroid == <<"1", "-", "2", "-", "3", " ", "4", ":", "5", ":", "6", ".", "7", " ", "C", "S", "T">>
SegDesktop == <<"1", "-", "2", "-", "3", "T", "4", ":", "5", ":", "6", ".", "7", "Z">>
SegIos == <<"1", "/", "2", "/", "3", " ", "4", ":", "5", ":", "6", ":", "7">>
SegWords == <<" ", "o", "n", " ">>
SegDigits == <<"1", "2">>
SegAndroidNoZone == <<"8", "-", "8", "-", "8", " ", "8", ":", "8", ":", "8", ".", "8">>
SegIosShort == <<"5", "/", "5", "/", "5", " ", "5", ":", "5", ":", "5">>
SegDesktopNoZ == <<"7", "-", "7", "-", "7", "T", "7", ":", "7", ":", "7", ".", "7">>
\* the pieces of a line: a timestamp of each platform, words, digits, and
\* timestamps cut short
Pieces == {SegAndroid, SegDesktop, SegIos, SegWords, SegDigits, SegAndroidNoZone, SegIosShort, SegDesktopNoZ}
RECURSIVE TextsOf(_)
TextsOf(n) == IF n = 0 THEN {<<>>} ELSE TextsOf(n - 1) \cup {t \o p : t \in TextsOf(n - 1), p \in Pieces}
Texts == TextsOf(MaxParts)

InitStamp ==
    /\ sline \in Texts
    /\ stamp = <<>>
    /\ spc = "call"
    /\ EarlyOff /\ HeapOff /\ VideoOff /\ RouteOff

\* extract_timestamp(line)
ExtractTimestamp ==
    /\ spc = "call"
    /\ stamp' = extract_timestamp_text(sline)
    /\ spc' = "returned"
    /\ UNCHANGED <<sline, earlyVars, heapVars, videoVars, routeVars>>

NextStamp == ExtractTimestamp

SpecStamp == InitStamp /\ [][NextStamp]_vars

\* the text is, as a whole, a timestamp of the grammar
IsStampOf(grammar, s) == Len(s) > 0 /\ MatchEnd(s, 1, grammar, 1) = Len(s) + 1
\* the places (first, last) of the line that hold a timestamp of the grammar
PlacesOf(grammar, s) ==
    {pl \in (1..Len(s)) \X (1..Len(s)) :
        pl[1] <= pl[2] /\ IsStampOf(grammar, SubSeq(s, pl[1], pl[2]))}
\* the text at the leftmost place, taken as far as it goes
LeftmostOf(grammar, s) ==
    LET first == CHOOSE pl \in PlacesOf(grammar, s) :
                    \A other \in PlacesOf(grammar, s) :
                        pl[1] < other[1] \/ (pl[1] = other[1] /\ pl[2] >= other[2])
    IN  SubSeq(s, first[1], first[2])

\* C26: The grammars are tried in the order Android, desktop, iOS, and the
\* leftmost timestamp of the first grammar that has one anywhere in the line
\* is returned, wherever the timestamps of the other grammars are; a line
\* without any is returned unchanged; a text returned as Android is no
\* desktop timestamp and a text returned as desktop is no Android timestamp.
C26_FirstGrammarInOrderWins ==
    (spc = "returned") =>
        /\ stamp = (IF PlacesOf(AndroidGrammar, sline) # {}
                    THEN Stamped("android", LeftmostOf(AndroidGrammar, sline))
                    ELSE IF PlacesOf(DesktopGrammar, sline) # {}
                    THEN Stamped("desktop", LeftmostOf(DesktopGrammar, sline))
                    ELSE IF PlacesOf(IosGrammar, sline) # {}
                    THEN Stamped("ios", LeftmostOf(IosGrammar, sline))
                    ELSE Stamped("line", sline))
        /\ stamp.fmt = "android" => ~IsStampOf(DesktopGrammar, stamp.s)
        /\ stamp.fmt = "desktop" => ~IsStampOf(AndroidGrammar, stamp.s)

\* C26 witness: the line holds a desktop timestamp and, after it, an Android
\* one, and the Android one is returned
C26_Witness ==
    /\ spc = "returned" /\ sline = SegDesktop \o SegAndroid
    /\ stamp = Stamped("android", SegAndroid)

(***************************************************************************)
(* parse_video_receive_stats.  A line is [matches, time, cells]: whether   *)
(* VIDEO_RECEIVE_STATS_PATTERN matches it, the time of its timestamp and   *)
(* the ten groups after the timestamp, as characters (nine cut at the next *)
(* comma, the tenth the rest of the line).  A float is kept in             *)
(* thousandths.  The cells carry no sign, blank or exponent.               *)
(***************************************************************************)
\* int(s) of a text of digits; ValueError otherwise
int(s) == IF IsDecimal(s) THEN Return(DecimalValue(s)) ELSE Raise("ValueError")

\* the place of the first "." of the text, Len(s) + 1 when it has none
DotOf(s) == CHOOSE p \in 1..(Len(s) + 1) :
                /\ \A q \in 1..(p - 1) : s[q] # "."
                /\ p = Len(s) + 1 \/ s[p] = "."

\* float(s) of digits with at most one "." and at most three digits after
\* it, in thousandths; ValueError otherwise
float(s) ==
    IF DotOf(s) > Len(s) THEN (IF IsDecimal(s) THEN Return(1000 * DecimalValue(s)) ELSE Raise("ValueError"))
    ELSE IF /\ IsDecimal(SubSeq(s, 1, DotOf(s) - 1) \o SubSeq(s, DotOf(s) + 1, Len(s)))
            /\ Len(s) - DotOf(s) <= 3
    THEN Return(1000 * DecimalValue(SubSeq(s, 1, DotOf(s) - 1))
                + DecimalValue(SubSeq(s, DotOf(s) + 1, Len(s)) \o [i \in 1..(3 - (Len(s) - DotOf(s))) |-> "0"]))
    ELSE Raise("ValueError")

\* the first exception of the conversions, in the order the code makes them
FirstRaised(outcomes) ==
    outcomes[CHOOSE i \in 1..Len(outcomes) :
                outcomes[i].exc # "" /\ \A h \in 1..(i - 1) : outcomes[h].exc = ""]

\* VideoReceiveStats(time, ssrc, ...) from the converted values, in the order
\* the code converts them
VideoReceiveStats(time, v) ==
    IF \E i \in 1..Len(v) : v[i].exc # "" THEN FirstRaised(v)
    ELSE Return(<<[time |-> time, ssrc |-> v[1].val, packets_received |-> v[2].val,
                   packets_lost |-> v[3].val, packets_repaired |-> v[4].val,
                   bytes_received |-> v[5].val, frames_decoded |-> v[6].val,
                   key_frames_decoded |-> v[7].val, total_decode_time |-> v[8].val,
                   frame_width |-> v[9].val, frame_height |-> v[10].val]>>)

\* parse_video_receive_stats(line): key_frames_decoded = int(frames_decoded_str)
parse_video_receive_stats(line) ==
    IF line.matches
    THEN VideoReceiveStats(line.time,
            <<int(line.cells[1]), int(line.cells[2]), int(line.cells[3]), int(line.cells[4]),
              int(line.cells[5]), int(line.cells[6]), int(line.cells[6]), float(line.cells[8]),
              int(line.cells[9]), int(line.cells[10])>>)
    ELSE Return(None)

IntCells == {<<"3">>, <<"1", "2">>}
FloatCells == {<<"0", ".", "5">>, <<"2">>}
\* the last group is the rest of the line: a number, or a number and more
LastCells == IntCells \cup {<<"7", ",", "1">>}
VideoLines ==
    { [matches |-> TRUE, time |-> 300, cells |-> <<c1, c2, c3, c4, c5, c6, c7, c8, c9, c10>>] :
        c1 \in {<<"1">>}, c2 \in IntCells, c3 \in {<<"0">>}, c4 \in IntCells, c5 \in IntCells,
        c6 \in IntCells, c7 \in IntCells, c8 \in FloatCells, c9 \in IntCells, c10 \in LastCells }
    \cup { [matches |-> FALSE, time |-> 0, cells |-> <<>>] }

InitVideo ==
    /\ vline \in VideoLines
    /\ vevent = <<>>
    /\ vpc = "call"
    /\ EarlyOff /\ HeapOff /\ StampOff /\ RouteOff

\* event = parse_video_receive_stats(line)
ParseVideoReceiveStats ==
    /\ vpc = "call"
    /\ vevent' = parse_video_receive_stats(vline)
    /\ vpc' = "returned"
    /\ UNCHANGED <<vline, earlyVars, heapVars, stampVars, routeVars>>

NextVideo == ParseVideoReceiveStats

SpecVideo == InitVideo /\ [][NextVideo]_vars

\* the names of the fields after the time, in the order of the columns
VideoFields ==
    <<"ssrc", "packets_received", "packets_lost", "packets_repaired", "bytes_received",
      "frames_decoded", "key_frames_decoded", "total_decode_time", "frame_width", "frame_height">>
\* the value a column stands for
ColumnValue(i, cell) == IF VideoFields[i] = "total_decode_time" THEN float(cell).val ELSE int(cell).val

\* C27: Every field of the event holds the value of its own column, in the
\* order of the columns; key_frames_decoded holds that of the seventh.
C27_EveryFieldFromItsColumn ==
    (vpc = "returned" /\ vevent.exc = "" /\ vevent.val # None) =>
        \A i \in 1..Len(VideoFields) :
            vevent.val[1][VideoFields[i]] = ColumnValue(i, vline.cells[i])

\* what holds of the code instead: every field but key_frames_decoded holds
\* the value of its column, and key_frames_decoded that of frames_decoded
EveryFieldButKeyFrames ==
    (vpc = "returned" /\ vevent.exc = "" /\ vevent.val # None) =>
        /\ \A i \in 1..Len(VideoFields) :
              VideoFields[i] # "key_frames_decoded"
                => vevent.val[1][VideoFields[i]] = ColumnValue(i, vline.cells[i])
        /\ vevent.val[1].key_frames_decoded = vevent.val[1].frames_decoded
        /\ vevent.val[1].time = vline.time

(***************************************************************************)
(* parse_log.py, the route summary: the branches of the main loop that     *)
(* read or write `start` and `period`, and what they print.  An event is   *)
(* [class, time, adapter_type, send_rate]; the events come in the order of *)
(* the file, the k-th with the time k (in seconds), and a send rate is     *)
(* 1000 bps times the time of its event.  A printed line is [kind,         *)
(* adapter_type, duration, send_rates, time]; the lines of the other       *)
(* events are left out.                                                    *)
(***************************************************************************)
MaxEvents == 4     \* most events of a file in the route summary

AdapterNames == {"Wifi", "Cellular", "Ethernet"}

parse_network_adapter_type_name(unparsed) ==
    IF unparsed = "Wifi" THEN "WIFI"
    ELSE IF unparsed = "Cellular" THEN "CELL"
    ELSE "UNKNOWN"

Event(class, time, adapter_type, send_rate) ==
    [class |-> class, time |-> time, adapter_type |-> adapter_type, send_rate |-> send_rate]

\* the events a line read at the time t can yield
EventsAt(t) ==
    { Event("NetworkRouteChange", t, parse_network_adapter_type_name(n), 0) : n \in AdapterNames }
    \cup { Event("SendRateChange", t, "", 1000 * t) }
    \cup { Event(class, t, "", 0) : class \in StartClasses \cup {"CallEnded", "LocalHangup"} }

NetworkRoutePeriod(adapter_type, started, send_rates) ==
    [adapter_type |-> adapter_type, start |-> started, send_rates |-> send_rates]

Printed(kind, adapter_type, duration, send_rates, time) ==
    [kind |-> kind, adapter_type |-> adapter_type, duration |-> duration,
     send_rates |-> send_rates, time |-> time]

\* Mutation of pretty: the duration is counted from the first send rate of
\* the period on.
NetworkRoutePeriod_pretty_FromFirstRate(p, end) ==
    Printed("period", p.adapter_type,
            IF Len(p.send_rates) > 0 THEN end - (p.send_rates[1] \div 1000) ELSE end - p.start,
            p.send_rates, 0)

\* NetworkRoutePeriod.pretty(self, end): duration = end - self.start
NetworkRoutePeriod_pretty(p, end) ==
    Printed("period", p.adapter_type, end - p.start, p.send_rates, 0)

\* the state of the loop: the two variables and the lines printed
Route(st, pd, out) == [start |-> st, period |-> pd, printed |-> out]

\* Mutation of OnCallMarker: the open period is printed before it is dropped.
OnCallMarker_Reports(r, event) ==
    Route(IF event.class = "CallStart" THEN <<event>> ELSE r.start,
          None,
          (IF r.period # None
           THEN Append(r.printed, NetworkRoutePeriod_pretty(r.period[1], event.time))
           ELSE r.printed) \o <<Printed(event.class, "", 0, <<>>, event.time)>>)

\* the branches for OutgoingCall, IncomingCall and CallStart
OnCallMarker(r, event) ==
    Route(IF event.class = "CallStart" THEN <<event>> ELSE r.start,
          None,
          Append(r.printed, Printed(event.class, "", 0, <<>>, event.time)))

\* if period is not None and event.adapter_type != period.adapter_type:
\*     print(period.pretty(event.time)); period = None
ClosePeriodOnChange(r, event) ==
    IF r.period # None /\ event.adapter_type # r.period[1].adapter_type
    THEN Route(r.start, None,
               Append(r.printed, NetworkRoutePeriod_pretty(r.period[1], event.time)))
    ELSE r

\* if period is None: period = NetworkRoutePeriod(event.adapter_type, event.time, [])
OpenPeriod(r, event) ==
    IF r.period = None
    THEN Route(r.start, <<NetworkRoutePeriod(event.adapter_type, event.time, <<>>)>>, r.printed)
    ELSE r

\* Mutation of OnNetworkRouteChange: every route change closes the period.
OnNetworkRouteChange_AlwaysCloses(r, event) ==
    Route(r.start, <<NetworkRoutePeriod(event.adapter_type, event.time, <<>>)>>,
          IF r.period # None
          THEN Append(r.printed, NetworkRoutePeriod_pretty(r.period[1], event.time))
          ELSE r.printed)

\* the branch for NetworkRouteChange
OnNetworkRouteChange(r, event) == OpenPeriod(ClosePeriodOnChange(r, event), event)

\* the branch for SendRateChange
OnSendRateChange(r, event) ==
    IF r.period # None
    THEN Route(r.start,
               <<[r.period[1] EXCEPT !.send_rates = Append(@, event.send_rate)]>>,
               r.printed)
    ELSE r

\* the lines of the CallEnded branch: the open period, "Call ended", and the
\* duration of the call when start is set
CallEndedLines(r, event) ==
    (IF r.period # None THEN <<NetworkRoutePeriod_pretty(r.period[1], event.time)>> ELSE <<>>)
    \o <<Printed("CallEnded", "", 0, <<>>, event.time)>>
    \o (IF r.start # None
        THEN <<Printed("Duration", "", event.time - r.start[1].time, <<>>, 0)>>
        ELSE <<>>)

\* the branch for CallEnded
OnCallEnded(r, event) == Route(r.start, None, r.printed \o CallEndedLines(r, event))

\* the body of `for event in parse_events(...)`, as far as start and period go
OnRouteEvent(r, event) ==
    IF event.class \in StartClasses THEN OnCallMarker(r, event)
    ELSE IF event.class = "NetworkRouteChange" THEN OnNetworkRouteChange(r, event)
    ELSE IF event.class = "SendRateChange" THEN OnSendRateChange(r, event)
    ELSE IF event.class = "CallEnded" THEN OnCallEnded(r, event)
    ELSE r

\* start = None; period = None
InitRoute ==
    /\ revents = <<>>
    /\ start = None
    /\ period = None
    /\ rprinted = <<>>
    /\ rpc = "loop"
    /\ EarlyOff /\ HeapOff /\ StampOff /\ VideoOff

\* one event of the file
RouteEvent ==
    /\ rpc = "loop"
    /\ Len(revents) < MaxEvents
    /\ \E event \in EventsAt(Len(revents) + 1) :
        \E after \in {OnRouteEvent(Route(start, period, rprinted), event)} :
            /\ revents' = Append(revents, event)
            /\ start' = after.start
            /\ period' = after.period
            /\ rprinted' = after.printed
    /\ UNCHANGED <<rpc, earlyVars, heapVars, stampVars, videoVars>>

\* the file is read: nothing is printed about the period
RouteEnd ==
    /\ rpc = "loop"
    /\ rpc' = "done"
    /\ UNCHANGED <<revents, start, period, rprinted, earlyVars, heapVars, stampVars, videoVars>>

NextRoute == RouteEvent \/ RouteEnd

SpecRoute == InitRoute /\ [][NextRoute]_vars

(***************************************************************************)
(* Properties of the route summary.                                        *)
(***************************************************************************)
\* the period lines among the printed lines, in order
Periods(out) == SelectSeq(out, LAMBDA l : l.kind = "period")
\* the step prints a period line
ReportsPeriod == Len(Periods(rprinted')) > Len(Periods(rprinted))
\* the event the step reads
ThisEvent == revents'[Len(revents')]
ReadsEvent == Len(revents') = Len(revents) + 1
\* the period line the step prints
ThisReport == Periods(rprinted')[Len(Periods(rprinted'))]
\* the send rates of the events read after the time `from`, in order
RatesSince(evs, from) ==
    LET rates == SelectSeq(evs, LAMBDA e : e.class = "SendRateChange" /\ e.time > from)
    IN  [i \in 1..Len(rates) |-> rates[i].send_rate]
\* the time of the last send-rate sample read
LastRateTime(evs) ==
    LET rates == SelectSeq(evs, LAMBDA e : e.class = "SendRateChange")
    IN  rates[Len(rates)].time

\* C24 (as claimed): the duration printed for a period closed by CallEnded is
\* the time of the CallEnded minus the start of the period; the duration
\* printed for a period closed by a route change is the time of the last
\* send-rate sample of the period minus its start.
C24_DurationToLastSample ==
    [][ (ReadsEvent /\ ReportsPeriod) =>
            IF ThisEvent.class = "CallEnded"
            THEN ThisReport.duration = ThisEvent.time - period[1].start
            ELSE period[1].send_rates # <<>>
                    => ThisReport.duration = LastRateTime(revents) - period[1].start ]_vars

\* C24 (amended): the duration printed for a period is the time of the event
\* that closes it, a NetworkRouteChange to another adapter type or a
\* CallEnded, minus the time of the NetworkRouteChange that opened it,
\* whenever the last send-rate sample of the period was.
C24_DurationToClosingEvent ==
    [][ (ReadsEvent /\ ReportsPeriod) =>
            /\ period # None
            /\ revents[period[1].start].class = "NetworkRouteChange"
            /\ revents[period[1].start].adapter_type = period[1].adapter_type
            /\ \/ ThisEvent.class = "CallEnded"
               \/ ThisEvent.class = "NetworkRouteChange"
                    /\ ThisEvent.adapter_type # period[1].adapter_type
            /\ ThisReport.adapter_type = period[1].adapter_type
            /\ ThisReport.duration = ThisEvent.time - period[1].start ]_vars

\* C24 witness: a Wifi period opened at 1 with a send rate at 2 was closed
\* by the change to Cellular at 4, and printed with the duration 3
C24_Witness ==
    /\ Len(revents) = 4 /\ revents[1].class = "NetworkRouteChange" /\ revents[1].adapter_type = "WIFI"
    /\ revents[2].class = "SendRateChange" /\ revents[3].class = "LocalHangup"
    /\ revents[4].class = "NetworkRouteChange" /\ revents[4].adapter_type = "CELL"
    /\ rprinted = <<Printed("period", "WIFI", 3, <<2000>>, 0)>>
    /\ period = <<NetworkRoutePeriod("CELL", 4, <<>>)>>

\* the step reads a NetworkRouteChange to another adapter type than that of
\* the open period
ChangesAdapter ==
    /\ ThisEvent.class = "NetworkRouteChange"
    /\ period # None
    /\ ThisEvent.adapter_type # period[1].adapter_type

\* C25: Periods are maximal runs of one adapter type: a NetworkRouteChange
\* with the adapter type of the open period starts no new period and prints
\* nothing; two period lines printed one after the other, with no call marker
\* or CallEnded line between them, have different adapter types; and the send
\* rates of a printed period are the SendRateChange samples read between the
\* event that opened it and the event that closes it, in order.
C25_PeriodsAreMaximalRuns ==
    [][ ReadsEvent =>
            /\ (/\ ThisEvent.class = "NetworkRouteChange"
                /\ period # None
                /\ ThisEvent.adapter_type = period[1].adapter_type)
                  => (period' = period /\ rprinted' = rprinted)
            /\ (ReportsPeriod /\ rprinted # <<>> /\ rprinted[Len(rprinted)].kind = "period")
                  => rprinted[Len(rprinted)].adapter_type # ThisReport.adapter_type
            /\ ReportsPeriod
                  => ThisReport.send_rates = RatesSince(revents, period[1].start) ]_vars

\* C25 witness: Wifi at 1, Wifi again at 2, a send rate at 3 and Cellular at
\* 4: one Wifi period of 3 seconds with that rate is printed
C25_Witness ==
    /\ Len(revents) = 4
    /\ revents[1].adapter_type = "WIFI" /\ revents[2].adapter_type = "WIFI"
    /\ revents[3].class = "SendRateChange" /\ revents[4].adapter_type = "CELL"
    /\ rprinted = <<Printed("period", "WIFI", 3, <<3000>>, 0)>>
    /\ period = <<NetworkRoutePeriod("CELL", 4, <<>>)>>

\* C29: A period is printed only by the step that closes it, a
\* NetworkRouteChange to another adapter type or a CallEnded, and once; a
\* period open when a call marker is read or when the file ends is dropped
\* without being printed; a send rate read while no period is open changes
\* nothing.
C29_PeriodReportedOnlyWhenClosed ==
    [][ /\ ReportsPeriod =>
            /\ ReadsEvent /\ period # None
            /\ ThisEvent.class = "CallEnded" \/ ChangesAdapter
            /\ Len(Periods(rprinted')) = Len(Periods(rprinted)) + 1
        /\ (ReadsEvent /\ ThisEvent.class \in StartClasses) =>
            /\ period' = None
            /\ Periods(rprinted') = Periods(rprinted)
        /\ (rpc = "loop" /\ rpc' = "done") => rprinted' = rprinted
        /\ (ReadsEvent /\ ThisEvent.class = "SendRateChange" /\ period = None) =>
            /\ period' = None /\ rprinted' = rprinted /\ start' = start ]_vars

\* C29 witness: a send rate read with no period open, a Wifi period opened
\* and given a send rate, then a CallStart: the file ends and no period line
\* was printed
C29_Witness ==
    /\ rpc = "done" /\ Len(revents) = 4
    /\ revents[1].class = "SendRateChange" /\ revents[2].class = "NetworkRouteChange"
    /\ revents[3].class = "SendRateChange" /\ revents[4].class = "CallStart"
    /\ period = None /\ Periods(rprinted) = <<>>
    /\ start = <<revents[4]>>

(***************************************************************************)
(* _parse_calls with its objects: the lists and dicts the loop makes are   *)
(* kept by address, so that dict(raw_call), a shallow copy, shares its     *)
(* lists with raw_call, and raw_call.clear() empties the dict raw_call is  *)
(* bound to and no other.  The state of the loop is [lists, dicts, rc,     *)
(* rcs, em, exc]: the objects, the address bound to raw_call, the          *)
(* addresses in raw_calls, the history of the emitted sessions and the     *)
(* exception raised.                                                       *)
(***************************************************************************)
ListKeys == CategoryKeys \cup {"logs"}

Objects(ls, ds, rc, rcs, em, exc) ==
    [lists |-> ls, dicts |-> ds, rc |-> rc, rcs |-> rcs, em |-> em, exc |-> exc]

\* the session a dict stands for: its lists read through their addresses
Deref(h, d) ==
    [k \in DOMAIN h.dicts[d] |->
        IF k \in ListKeys THEN h.lists[h.dicts[d][k]] ELSE h.dicts[d][k]]

\* raw_call = new_raw_call(): nine new lists and a new dict that holds them
Obj_new_raw_call(h) ==
    [h EXCEPT !.lists = h.lists \o [i \in 1..9 |-> <<>>],
              !.dicts = Append(h.dicts,
                  [connection |-> Len(h.lists) + 1, ice_network_route_change |-> Len(h.lists) + 2,
                   audio_send |-> Len(h.lists) + 3, audio_recv |-> Len(h.lists) + 4,
                   video_send |-> Len(h.lists) + 5, video_recv |-> Len(h.lists) + 6,
                   sfu_recv |-> Len(h.lists) + 7, media_key_recv |-> Len(h.lists) + 8,
                   logs |-> Len(h.lists) + 9, start |-> EmptyStr, end |-> EmptyStr,
                   type |-> "Unknown", id |-> Unknown]),
              !.rc = Len(h.dicts) + 1]

\* raw_calls.append(dict(raw_call)): a new dict with the same values, the
\* lists shared
Obj_append_copy(h) ==
    [h EXCEPT !.dicts = Append(h.dicts, h.dicts[h.rc]),
              !.rcs = Append(h.rcs, Len(h.dicts) + 1),
              !.em = Append(h.em, Deref(h, h.rc))]

\* Mutation of Obj_clear: raw_call.clear() is left out.
Obj_clear_Skipped(h) == h

\* raw_call.clear()
Obj_clear(h) == [h EXCEPT !.dicts[h.rc] = EmptyDict]

\* if raw_call: raw_calls.append(dict(raw_call)); raw_call.clear()
Obj_CloseOpen(h) == IF Truthy(h.dicts[h.rc]) THEN Obj_clear(Obj_append_copy(h)) ELSE h

\* raw_call[key] = value
Obj_setitem(h, key, value) == [h EXCEPT !.dicts[h.rc][key] = value]

\* append(key, value): if raw_call: raw_call[key].append(value)
Obj_append(h, key, value) ==
    IF Truthy(h.dicts[h.rc])
    THEN [h EXCEPT !.lists[h.dicts[h.rc][key]] = Append(@, value)]
    ELSE h

\* the start branch once the new raw_call has its start: the id, then the type
Obj_StartFields(h, line, id) ==
    IF id.exc # "" THEN [h EXCEPT !.exc = id.exc]
    ELSE IF line.dir # "" THEN Obj_setitem(Obj_setitem(h, "id", id.val), "type", line.dir)
    ELSE Obj_setitem(h, "id", id.val)

\* branch: 'on_start_call' in line
Obj_OnStart(h, line) ==
    Obj_StartFields(Obj_setitem(Obj_new_raw_call(Obj_CloseOpen(h)), "start", extract_timestamp(line)),
                    line, extract_call_id(line))

\* branch: 'Group Client created with id' in line
Obj_OnGroup(h, line) ==
    Obj_setitem(Obj_setitem(Obj_new_raw_call(Obj_CloseOpen(h)), "start", extract_timestamp(line)),
                "type", GROUP_CALL_TYPE)

\* branch: a termination marker and raw_call
Obj_OnTerminate(h, line) ==
    Obj_clear(Obj_append_copy(Obj_setitem(h, "end", extract_timestamp(line))))

\* one iteration of `for line in logs`
Obj_LoopBody(h, line) ==
    IF A_start \in line.has THEN Obj_OnStart(h, line)
    ELSE IF A_group \in line.has THEN Obj_OnGroup(h, line)
    ELSE IF (A_term \in line.has \/ A_delete \in line.has) /\ Truthy(h.dicts[h.rc])
        THEN Obj_OnTerminate(h, line)
    ELSE IF A_ice \in line.has THEN Obj_append(h, "ice_network_route_change", line)
    ELSE IF A_connection \in line.has THEN Obj_append(h, "connection", line)
    ELSE IF A_audio_send \in line.has THEN Obj_append(h, "audio_send", line)
    ELSE IF A_audio_recv \in line.has THEN Obj_append(h, "audio_recv", line)
    ELSE IF A_video_send \in line.has THEN Obj_append(h, "video_send", line)
    ELSE IF A_video_recv \in line.has THEN Obj_append(h, "video_recv", line)
    ELSE IF A_sfu_recv \in line.has THEN Obj_append(h, "sfu_recv", line)
    ELSE IF A_track \in line.has THEN Obj_append(h, "media_key_recv", line)
    ELSE IF A_key \in line.has THEN Obj_append(h, "media_key_recv", line)
    ELSE Obj_append(h, "logs", line)

\* after the loop: if raw_call: raw_calls.append(raw_call), the dict itself
Obj_AfterLoop(h) ==
    IF Truthy(h.dicts[h.rc])
    THEN [h EXCEPT !.rcs = Append(h.rcs, h.rc), !.em = Append(h.em, Deref(h, h.rc))]
    ELSE h

\* raw_calls = []; raw_call = {}
InitObjects ==
    /\ lists = <<>>
    /\ dicts = <<EmptyDict>>
    /\ raw_call_at = 1
    /\ raw_calls_at = <<>>
    /\ emitted = <<>>
    /\ aread = 0
    /\ apc = "loop"
    /\ EarlyOff /\ StampOff /\ VideoOff /\ RouteOff

\* for line in logs: one iteration
ObjectsLine ==
    /\ apc = "loop"
    /\ aread < MaxLines
    /\ \E l \in Lines :
        \E after \in {Obj_LoopBody(Objects(lists, dicts, raw_call_at, raw_calls_at, emitted, ""), l)} :
            /\ lists' = after.lists
            /\ dicts' = after.dicts
            /\ raw_call_at' = after.rc
            /\ raw_calls_at' = after.rcs
            /\ emitted' = after.em
            /\ aread' = aread + 1
            /\ apc' = IF after.exc # "" THEN "raised" ELSE "loop"
    /\ UNCHANGED <<earlyVars, stampVars, videoVars, routeVars>>

\* the input is exhausted
ObjectsReturn ==
    /\ apc = "loop"
    /\ \E after \in {Obj_AfterLoop(Objects(lists, dicts, raw_call_at, raw_calls_at, emitted, ""))} :
            /\ raw_calls_at' = after.rcs
            /\ emitted' = after.em
    /\ apc' = "returned"
    /\ UNCHANGED <<lists, dicts, raw_call_at, aread, earlyVars, stampVars, videoVars, routeVars>>

NextObjects == ObjectsLine \/ ObjectsReturn

SpecObjects == InitObjects /\ [][NextObjects]_vars

\* raw_calls as the sessions its dicts stand for
EmittedNow ==
    [i \in 1..Len(raw_calls_at) |->
        Deref(Objects(lists, dicts, raw_call_at, raw_calls_at, emitted, ""), raw_calls_at[i])]

\* C22: A session that has been emitted (by a termination marker, by a new
\* start marker or at the end of the input) stays as it was emitted: no later
\* line changes its category sequences, its ancillary list, its id, type,
\* start or end, although its lists were shared with raw_call when it was
\* copied.
C22_EmittedSessionsNeverChange ==
    /\ Len(raw_calls_at) = Len(emitted)
    /\ EmittedNow = emitted

\* C22 witness: a session was emitted by a second start marker, and a sample
\* read after it went to the session the second marker opened
C22_Witness ==
    /\ apc = "loop" /\ aread = 3
    /\ Len(emitted) = 1 /\ emitted[1].end = EmptyStr /\ emitted[1].connection = <<>>
    /\ raw_call_at # raw_calls_at[1] /\ Truthy(dicts[raw_call_at])
    /\ Len(lists[dicts[raw_call_at].connection]) = 1
====
